---- MODULE Spec2Model ----
(***************************************************************************)
(* Confidential solvency accounting: AssetAndLiabilityAccount::update and   *)
(* SolvencyAudit::{set_rate, prove_solvency_and_store, verify_solvency} of  *)
(* components/solvency/src/solvency.rs.                                     *)
(*                                                                          *)
(* Scalars are the residues 0 .. ScalarOrder-1 (the curve's scalar field,   *)
(* scaled down).  A group element is the pair <<v, b>> of its exponents     *)
(* over the two Pedersen generators, so Commit(v, b) = v*B + b*B_blinding   *)
(* is the pair itself, point addition is componentwise and two points are   *)
(* equal iff they open alike (binding).                                     *)
(***************************************************************************)
EXTENDS Integers, Sequences, FiniteSets, TLC

\* ------------------------------------------------------------------ bounds
\* Order of the (scaled-down) scalar field.
ScalarOrder == 251
\* Most entries an account holds, over its four value sequences together.
MaxEntries == 2
\* Most entries of the conversion-rate table.
MaxRates == 2

\* ------------------------------------------------------------ input sets
\* AmountType
AmountTypes == {"Asset", "Liability"}
\* Scalars of the asset type codes the callers use (asset_type_to_scalar).
Codes == {1, 2}
\* Amounts the callers claim.
Amounts == {1, 2}
\* The (code, rate) pairs the callers set: code 1 at rate 1, code 2 at rate 1
\* or 2.
RateArgs == {<<1, 1>>, <<2, 1>>, <<2, 2>>}
\* UTXO SIDs the callers query.
Utxos == 0 .. 4
\* Raw blind triples ((low, high), code_blind), as scalars; the lists of at
\* most two of them.
BlindTriples == {<<1, 1, 1>>, <<2, 0, 3>>, <<250, 2, 0>>, <<0, 250, 250>>}
BlindLists ==
    {<<>>} \cup {<<t>> : t \in BlindTriples}
           \cup {<<t, u>> : t \in BlindTriples, u \in BlindTriples}
\* The 32-bit limbs (low, high) of the amounts of confidential outputs.
LowLimbs == {1, 2}
HighLimbs == {0, 1}
\* Proof bytes that are not the serialization of a proof.
ForeignBytes == {<<"garbage">>}
\* Other values of an account's hidden plaintext and blind sequences.
OtherSequences == {<<>>, <<<<2, 2>>>>, <<<<1, 1>>, <<2, 1>>>>}
\* The rate tables of the audits of the several-audit specification: no rate,
\* a rate for code 1 alone, a rate for each code, code 2 set twice.
AuditTables ==
    {<<>>, <<<<1, 1>>>>, <<<<1, 1>>, <<2, 2>>>>, <<<<2, 1>>, <<1, 1>>, <<2, 2>>>>}

\* ------------------------------------------------------ commitment algebra
Scalar(n) == n % ScalarOrder

\* Scalar::from(1u64 << 32), computed without leaving 32-bit integers.
POW_2_32 == (((65536 % ScalarOrder) * (65536 % ScalarOrder)) % ScalarOrder)

\* pc_gens.commit(value, blind)
Commit(value, blind) == <<Scalar(value), Scalar(blind)>>

\* RistrettoPoint + RistrettoPoint
PointAdd(p, q) == <<Scalar(p[1] + q[1]), Scalar(p[2] + q[2])>>

\* RistrettoPoint * Scalar
PointMul(p, s) == <<Scalar(p[1] * s), Scalar(p[2] * s)>>

\* RistrettoPoint::compress: the 32-byte encoding of a point.
Compress(p) == <<"pt", p[1], p[2]>>

\* A CompressedRistretto that is the encoding of no point.
BadPoint == <<"bad", 0, 0>>

\* get_decompressed_commitment: Ok(point) or Err(DecompressElementError).
get_decompressed_commitment(c) ==
    IF c[1] = "pt" THEN [ok |-> TRUE, point |-> <<c[2], c[3]>>]
    ELSE [ok |-> FALSE, point |-> <<0, 0>>]

\* ----------------------------------------------------------- the ledger
\* query_utxo_and_get_amount(utxo, protocol, host): the ledger the callers
\* query holds one plaintext output of amount 1, one confidential output of
\* amount 1 = 1 + 2^32 * 0 under the limb blinds (1, 1), and two confidential
\* outputs with a malformed limb commitment; SID 0 resolves to nothing.
query_utxo_and_get_amount(utxo) ==
    CASE utxo = 1 -> [tag |-> "NonConfidential", amount |-> 1,
                      low |-> BadPoint, high |-> BadPoint]
      [] utxo = 2 -> [tag |-> "Confidential", amount |-> 0,
                      low |-> Compress(Commit(1, 1)), high |-> Compress(Commit(0, 1))]
      [] utxo = 3 -> [tag |-> "Confidential", amount |-> 0,
                      low |-> BadPoint, high |-> Compress(Commit(0, 1))]
      [] utxo = 4 -> [tag |-> "Confidential", amount |-> 0,
                      low |-> Compress(Commit(1, 1)), high |-> BadPoint]
      [] OTHER    -> [tag |-> "Err", amount |-> 0,
                      low |-> BadPoint, high |-> BadPoint]

\* Option<((Scalar, Scalar), Scalar)>: the blinds a caller passes.
NoBlinds == <<"None", 0, 0, 0>>
SomeBlinds(low, high, code_blind) == <<"Some", low, high, code_blind>>
BlindsArgs == {NoBlinds, SomeBlinds(1, 1, 1)}

\* ------------------------------------------------------------ results
\* Result<(), PlatformError>
Ok == [kind |-> "Ok", detail |-> ""]
\* PlatformError::InputsError(error_location!())
InputsError == [kind |-> "InputsError", detail |-> ""]
\* PlatformError::DeserializationError
DeserializationError == [kind |-> "DeserializationError", detail |-> ""]
\* PlatformError::ZeiError(error_location!(), e)
ZeiError(e) == [kind |-> "ZeiError", detail |-> e]
\* The error query_utxo_and_get_amount returns, passed on by `?`.
QueryError == [kind |-> "QueryError", detail |-> ""]

\* ------------------------------------------------------------------ state
VARIABLES
    account,            \* AssetAndLiabilityAccount
    conversion_rates,   \* SolvencyAudit.conversion_rates
    ret,                \* the last call: its name, the rate table of the audit
                        \* it was made on, whether a successful prove on that
                        \* audit came right before it, and the Result it returned
    pre,                \* the account as the last call found it
    stage,              \* how far the last calls went along the run prove,
                        \* verify, update, verify, prove, verify (0 .. 7,
                        \* see StageAfter)
    lock,               \* the lock the callers of one account share: what
                        \* each caller holds of it ("none", "read", "write")
    calls,              \* each caller's call in flight: the method it is in
                        \* and the writes to the account it has yet to make
    ctx,                \* the account module's Context: ctx.state (AccountStore,
                        \* TotalIssuance). BALANCE_MAP and TOTAL_ISSUANCE of
                        \* enterprise_web3, which the calls feed after their
                        \* writes and never read, are left out.
    call,               \* the last AccountAsset call: its name, the Result it
                        \* returned, and whether it wrote ctx.state
    staking,            \* the Staking instance handed to ClaimOps::apply
    EVM_STAKING,        \* the process-wide EVM staking cell
    applied             \* the last run of a ClaimOps: the method, whether its
                        \* signature verified, its validator address, its
                        \* Result

solvency_vars == <<account, conversion_rates, ret, pre, stage, lock, calls>>
ledger_vars == <<ctx, call>>
staking_vars == <<staking, EVM_STAKING, applied>>

vars == <<account, conversion_rates, ret, pre, stage, lock, calls, ctx, call, staking, EVM_STAKING, applied>>

\* Threads that hold the same account.
Callers == {1, 2}

\* A caller outside any call.
Idle == [pc |-> "idle", pending |-> <<>>]

\* Option<Vec<u8>>
None == <<"None">>
Some(bytes) == <<"Some", bytes>>

\* AssetAndLiabilityAccount::default()
DefaultAccount ==
    [public_assets |-> <<>>,
     hidden_assets |-> <<>>,
     hidden_assets_blinds |-> <<>>,
     hidden_assets_commitments |-> <<>>,
     public_liabilities |-> <<>>,
     hidden_liabilities |-> <<>>,
     hidden_liabilities_blinds |-> <<>>,
     hidden_liabilities_commitments |-> <<>>,
     proof |-> None]

\* Address
Addresses == {1, 2, 3}

\* SmartAccount::default()
DefaultSmartAccount == [nonce |-> 0, balance |-> 0, reserved |-> 0]

\* The Context of a fresh chain: nothing stored.
FreshContext ==
    [AccountStore |-> [who \in Addresses |-> None],
     TotalIssuance |-> None]

\* No AccountAsset call, no ClaimOps yet.
NoCall == [op |-> "none", result |-> Ok, wrote |-> FALSE]

\* Staking::default() as far as ClaimOps::apply reads or writes it: the
\* block height and the claims made on it.
FreshStaking == [cur_height |-> 0, claims |-> <<>>]

Init ==
    /\ account = DefaultAccount
    /\ conversion_rates = <<>>
    /\ ret = [op |-> "new", audit |-> <<>>, fresh |-> FALSE, result |-> Ok]
    /\ pre = DefaultAccount
    /\ stage = 0
    /\ lock = [t \in Callers |-> "none"]
    /\ calls = [t \in Callers |-> Idle]
    /\ ctx = FreshContext
    /\ call = NoCall
    /\ staking = FreshStaking
    /\ EVM_STAKING = None
    /\ applied = [method |-> "none", verified |-> FALSE, td_addr |-> None,
                  result |-> Ok]

\* Entries held over the four value sequences.
NumEntries(a) ==
    Len(a.public_assets) + Len(a.hidden_assets)
    + Len(a.public_liabilities) + Len(a.hidden_liabilities)

\* ------------------------------------------------------- serialization
\* Option<Vec<u8>> as serde writes it: null, or the bytes.
serialize_option(proof) ==
    IF proof[1] = "Some" THEN <<"bytes", proof[2]>> ELSE <<"null">>
deserialize_option(value) ==
    IF value[1] = "bytes" THEN Some(value[2]) ELSE None

\* The derived Serialize without the field `proof`.
serialize_SkipsProof(a) ==
    <<<<"public_assets", a.public_assets>>,
      <<"hidden_assets", a.hidden_assets>>,
      <<"hidden_assets_blinds", a.hidden_assets_blinds>>,
      <<"hidden_assets_commitments", a.hidden_assets_commitments>>,
      <<"public_liabilities", a.public_liabilities>>,
      <<"hidden_liabilities", a.hidden_liabilities>>,
      <<"hidden_liabilities_blinds", a.hidden_liabilities_blinds>>,
      <<"hidden_liabilities_commitments", a.hidden_liabilities_commitments>>,
      <<"proof", <<"null">>>>>>

\* #[derive(Serialize)] of AssetAndLiabilityAccount: every field, under its
\* name, in declaration order.
serialize(a) ==
    <<<<"public_assets", a.public_assets>>,
      <<"hidden_assets", a.hidden_assets>>,
      <<"hidden_assets_blinds", a.hidden_assets_blinds>>,
      <<"hidden_assets_commitments", a.hidden_assets_commitments>>,
      <<"public_liabilities", a.public_liabilities>>,
      <<"hidden_liabilities", a.hidden_liabilities>>,
      <<"hidden_liabilities_blinds", a.hidden_liabilities_blinds>>,
      <<"hidden_liabilities_commitments", a.hidden_liabilities_commitments>>,
      <<"proof", serialize_option(a.proof)>>>>

\* #[derive(Deserialize)] of AssetAndLiabilityAccount.
deserialize(doc) ==
    [public_assets |-> doc[1][2],
     hidden_assets |-> doc[2][2],
     hidden_assets_blinds |-> doc[3][2],
     hidden_assets_commitments |-> doc[4][2],
     public_liabilities |-> doc[5][2],
     hidden_liabilities |-> doc[6][2],
     hidden_liabilities_blinds |-> doc[7][2],
     hidden_liabilities_commitments |-> doc[8][2],
     proof |-> deserialize_option(doc[9][2])]

\* #[derive(Serialize, Deserialize)] of SolvencyAudit.
serialize_audit(table) == <<<<"conversion_rates", table>>>>
deserialize_audit(doc) == doc[1][2]

\* --------------------------------------------------------- the account
\* The limb combination of the blinds: (low + 2^32 * high, code_blind).
CombineBlinds(low, high, code_blind) ==
    <<Scalar(low + POW_2_32 * high), code_blind>>

\* The entry pushed on a public or hidden value sequence.
AmountAndCode(amount, code_scalar) == <<Scalar(amount), code_scalar>>

\* UpdatePublic without `self.proof = None`.
UpdatePublic_KeepsProof(self, amount_type, amount, code_scalar, fetched_amount) ==
    IF fetched_amount # amount
    THEN [self |-> self, result |-> InputsError]
    ELSE [self |-> IF amount_type = "Asset"
                   THEN [self EXCEPT !.public_assets =
                             Append(@, AmountAndCode(amount, code_scalar))]
                   ELSE [self EXCEPT !.public_liabilities =
                             Append(@, AmountAndCode(amount, code_scalar))],
          result |-> Ok]

\* UpdatePublic pushing on public_assets whatever the amount type.
UpdatePublic_AlwaysAsset(self, amount_type, amount, code_scalar, fetched_amount) ==
    IF fetched_amount # amount
    THEN [self |-> self, result |-> InputsError]
    ELSE [self |-> [self EXCEPT !.public_assets =
                                    Append(@, AmountAndCode(amount, code_scalar)),
                                !.proof = None],
          result |-> Ok]

\* UpdatePublic putting the new entry in front of the entries held.
UpdatePublic_Prepends(self, amount_type, amount, code_scalar, fetched_amount) ==
    IF fetched_amount # amount
    THEN [self |-> self, result |-> InputsError]
    ELSE LET pushed ==
                 IF amount_type = "Asset"
                 THEN [self EXCEPT !.public_assets =
                           <<AmountAndCode(amount, code_scalar)>> \o @]
                 ELSE [self EXCEPT !.public_liabilities =
                           <<AmountAndCode(amount, code_scalar)>> \o @]
         IN [self |-> [pushed EXCEPT !.proof = None], result |-> Ok]

\* The branch of update for XfrAmount::NonConfidential(fetched_amount).
UpdatePublic(self, amount_type, amount, code_scalar, fetched_amount) ==
    IF fetched_amount # amount
    THEN [self |-> self, result |-> InputsError]
    ELSE LET pushed ==
                 IF amount_type = "Asset"
                 THEN [self EXCEPT !.public_assets =
                           Append(@, AmountAndCode(amount, code_scalar))]
                 ELSE [self EXCEPT !.public_liabilities =
                           Append(@, AmountAndCode(amount, code_scalar))]
         IN [self |-> [pushed EXCEPT !.proof = None], result |-> Ok]

\* UpdateHidden pushing the plaintext entry and the blinds before it
\* decompresses the limb commitments.
UpdateHidden_PushesFirst(self, amount_type, amount, code_scalar, blinds, low, high) ==
    IF blinds[1] # "Some"
    THEN [self |-> self, result |-> InputsError]
    ELSE LET amount_and_code_blinds == CombineBlinds(blinds[2], blinds[3], blinds[4])
             started ==
                 IF amount_type = "Asset"
                 THEN [self EXCEPT
                         !.hidden_assets =
                             Append(@, AmountAndCode(amount, code_scalar)),
                         !.hidden_assets_blinds = Append(@, amount_and_code_blinds)]
                 ELSE [self EXCEPT
                         !.hidden_liabilities =
                             Append(@, AmountAndCode(amount, code_scalar)),
                         !.hidden_liabilities_blinds = Append(@, amount_and_code_blinds)]
             dlow == get_decompressed_commitment(low)
             dhigh == get_decompressed_commitment(high)
         IN IF ~dlow.ok \/ ~dhigh.ok
            THEN [self |-> started, result |-> ZeiError("DecompressElementError")]
            ELSE LET commitment ==
                         <<Compress(PointAdd(dlow.point, PointMul(dhigh.point, POW_2_32))),
                           Compress(Commit(code_scalar, blinds[4]))>>
                     pushed ==
                         IF amount_type = "Asset"
                         THEN [started EXCEPT !.hidden_assets_commitments =
                                                  Append(@, commitment)]
                         ELSE [started EXCEPT !.hidden_liabilities_commitments =
                                                  Append(@, commitment)]
                 IN [self |-> [pushed EXCEPT !.proof = None], result |-> Ok]

\* UpdateHidden without `self.proof = None`.
UpdateHidden_KeepsProof(self, amount_type, amount, code_scalar, blinds, low, high) ==
    IF blinds[1] # "Some"
    THEN [self |-> self, result |-> InputsError]
    ELSE LET dlow == get_decompressed_commitment(low)
             dhigh == get_decompressed_commitment(high)
         IN IF ~dlow.ok \/ ~dhigh.ok
            THEN [self |-> self, result |-> ZeiError("DecompressElementError")]
            ELSE LET entry == AmountAndCode(amount, code_scalar)
                     both == CombineBlinds(blinds[2], blinds[3], blinds[4])
                     commitment ==
                         <<Compress(PointAdd(dlow.point, PointMul(dhigh.point, POW_2_32))),
                           Compress(Commit(code_scalar, blinds[4]))>>
                 IN [self |-> IF amount_type = "Asset"
                              THEN [self EXCEPT
                                      !.hidden_assets = Append(@, entry),
                                      !.hidden_assets_blinds = Append(@, both),
                                      !.hidden_assets_commitments = Append(@, commitment)]
                              ELSE [self EXCEPT
                                      !.hidden_liabilities = Append(@, entry),
                                      !.hidden_liabilities_blinds = Append(@, both),
                                      !.hidden_liabilities_commitments =
                                          Append(@, commitment)],
                     result |-> Ok]

\* UpdateHidden decompressing the limb commitments before it looks at the
\* blinds.
UpdateHidden_DecompressFirst(self, amount_type, amount, code_scalar, blinds, low, high) ==
    LET dlow == get_decompressed_commitment(low)
        dhigh == get_decompressed_commitment(high)
    IN IF ~dlow.ok \/ ~dhigh.ok
       THEN [self |-> self, result |-> ZeiError("DecompressElementError")]
       ELSE IF blinds[1] # "Some"
       THEN [self |-> self, result |-> InputsError]
       ELSE UpdateHidden_KeepsProof(
                [self EXCEPT !.proof = None], amount_type, amount, code_scalar,
                blinds, low, high)

\* UpdateHidden pushing the commitment pair on hidden_assets_commitments
\* whatever the amount type.
UpdateHidden_CommitmentToAssets(self, amount_type, amount, code_scalar, blinds, low, high) ==
    IF blinds[1] # "Some"
    THEN [self |-> self, result |-> InputsError]
    ELSE LET dlow == get_decompressed_commitment(low)
             dhigh == get_decompressed_commitment(high)
         IN IF ~dlow.ok \/ ~dhigh.ok
            THEN [self |-> self, result |-> ZeiError("DecompressElementError")]
            ELSE LET entry == AmountAndCode(amount, code_scalar)
                     both == CombineBlinds(blinds[2], blinds[3], blinds[4])
                     commitment ==
                         <<Compress(PointAdd(dlow.point, PointMul(dhigh.point, POW_2_32))),
                           Compress(Commit(code_scalar, blinds[4]))>>
                     started ==
                         IF amount_type = "Asset"
                         THEN [self EXCEPT
                                 !.hidden_assets = Append(@, entry),
                                 !.hidden_assets_blinds = Append(@, both)]
                         ELSE [self EXCEPT
                                 !.hidden_liabilities = Append(@, entry),
                                 !.hidden_liabilities_blinds = Append(@, both)]
                 IN [self |-> [started EXCEPT
                                 !.hidden_assets_commitments = Append(@, commitment),
                                 !.proof = None],
                     result |-> Ok]

\* UpdateHidden adding the limb commitments without the factor 2^32.
UpdateHidden_AddsLimbs(self, amount_type, amount, code_scalar, blinds, low, high) ==
    IF blinds[1] # "Some"
    THEN [self |-> self, result |-> InputsError]
    ELSE LET dlow == get_decompressed_commitment(low)
             dhigh == get_decompressed_commitment(high)
         IN IF ~dlow.ok \/ ~dhigh.ok
            THEN [self |-> self, result |-> ZeiError("DecompressElementError")]
            ELSE LET entry == AmountAndCode(amount, code_scalar)
                     both == CombineBlinds(blinds[2], blinds[3], blinds[4])
                     commitment ==
                         <<Compress(PointAdd(dlow.point, dhigh.point)),
                           Compress(Commit(code_scalar, blinds[4]))>>
                 IN [self |-> IF amount_type = "Asset"
                              THEN [self EXCEPT
                                      !.hidden_assets = Append(@, entry),
                                      !.hidden_assets_blinds = Append(@, both),
                                      !.hidden_assets_commitments = Append(@, commitment),
                                      !.proof = None]
                              ELSE [self EXCEPT
                                      !.hidden_liabilities = Append(@, entry),
                                      !.hidden_liabilities_blinds = Append(@, both),
                                      !.hidden_liabilities_commitments =
                                          Append(@, commitment),
                                      !.proof = None],
                     result |-> Ok]

\* UpdateHidden returning an error kind of its own for absent blinds.
UpdateHidden_OwnKind(self, amount_type, amount, code_scalar, blinds, low, high) ==
    IF blinds[1] # "Some"
    THEN [self |-> self, result |-> [kind |-> "MissingBlinds", detail |-> ""]]
    ELSE UpdateHidden_DecompressFirst(self, amount_type, amount, code_scalar,
                                      blinds, low, high)

\* UpdateHidden clearing the proof slot when a limb commitment does not
\* decompress.
UpdateHidden_ClearsProofOnError(self, amount_type, amount, code_scalar, blinds, low, high) ==
    IF blinds[1] # "Some"
    THEN [self |-> self, result |-> InputsError]
    ELSE LET r == UpdateHidden_DecompressFirst(self, amount_type, amount,
                                               code_scalar, blinds, low, high)
         IN [self |-> [r.self EXCEPT !.proof = None], result |-> r.result]

\* UpdateHidden taking a high limb commitment that does not decompress for
\* the commitment to nothing.
UpdateHidden_IgnoresHigh(self, amount_type, amount, code_scalar, blinds, low, high) ==
    IF blinds[1] # "Some"
    THEN [self |-> self, result |-> InputsError]
    ELSE UpdateHidden_DecompressFirst(
             self, amount_type, amount, code_scalar, blinds, low,
             IF get_decompressed_commitment(high).ok THEN high
             ELSE Compress(Commit(0, 0)))

\* The branch of update for XfrAmount::Confidential((low, high)).
UpdateHidden(self, amount_type, amount, code_scalar, blinds, low, high) ==
    IF blinds[1] # "Some"
    THEN [self |-> self, result |-> InputsError]
    ELSE LET amount_and_code_blinds == CombineBlinds(blinds[2], blinds[3], blinds[4])
             dlow == get_decompressed_commitment(low)
             dhigh == get_decompressed_commitment(high)
         IN IF ~dlow.ok \/ ~dhigh.ok
            THEN [self |-> self, result |-> ZeiError("DecompressElementError")]
            ELSE LET amount_commitment ==
                         Compress(PointAdd(dlow.point, PointMul(dhigh.point, POW_2_32)))
                     code_commitment == Compress(Commit(code_scalar, blinds[4]))
                     commitment == <<amount_commitment, code_commitment>>
                     pushed ==
                         IF amount_type = "Asset"
                         THEN [self EXCEPT
                                 !.hidden_assets =
                                     Append(@, AmountAndCode(amount, code_scalar)),
                                 !.hidden_assets_blinds =
                                     Append(@, amount_and_code_blinds),
                                 !.hidden_assets_commitments =
                                     Append(@, commitment)]
                         ELSE [self EXCEPT
                                 !.hidden_liabilities =
                                     Append(@, AmountAndCode(amount, code_scalar)),
                                 !.hidden_liabilities_blinds =
                                     Append(@, amount_and_code_blinds),
                                 !.hidden_liabilities_commitments =
                                     Append(@, commitment)]
                 IN [self |-> [pushed EXCEPT !.proof = None], result |-> Ok]

\* update refusing blinds given for a plaintext output.
update_WantsNoBlinds(self, amount_type, amount, code, blinds, utxo) ==
    LET fetched == query_utxo_and_get_amount(utxo)
    IN CASE fetched.tag = "Err" ->
              [self |-> self, result |-> QueryError]
         [] fetched.tag = "NonConfidential" ->
              IF blinds[1] = "Some"
              THEN [self |-> self, result |-> InputsError]
              ELSE UpdatePublic(self, amount_type, amount, code, fetched.amount)
         [] OTHER ->
              UpdateHidden(self, amount_type, amount, code, blinds,
                           fetched.low, fetched.high)

\* AssetAndLiabilityAccount::update: the account it leaves and its Result.
\* `code` is already the scalar asset_type_to_scalar(&code.val).
update(self, amount_type, amount, code, blinds, utxo) ==
    LET fetched == query_utxo_and_get_amount(utxo)
    IN CASE fetched.tag = "Err" ->
              [self |-> self, result |-> QueryError]
         [] fetched.tag = "NonConfidential" ->
              UpdatePublic(self, amount_type, amount, code, fetched.amount)
         [] OTHER ->
              UpdateHidden(self, amount_type, amount, code, blinds,
                           fetched.low, fetched.high)

\* get_amount_and_code_blinds returning the pairs last to first.
get_amount_and_code_blinds_Reversed(blinds) ==
    [i \in 1 .. Len(blinds) |->
        CombineBlinds(blinds[Len(blinds) + 1 - i][1], blinds[Len(blinds) + 1 - i][2],
                      blinds[Len(blinds) + 1 - i][3])]

\* get_amount_and_code_blinds
get_amount_and_code_blinds(blinds) ==
    [i \in 1 .. Len(blinds) |->
        CombineBlinds(blinds[i][1], blinds[i][2], blinds[i][3])]

\* ------------------------------------------------------- the rate table
\* The position of `code` among the keys of a LinearMap, 0 if absent.
KeyIndex(map, code) ==
    IF \E i \in 1 .. Len(map) : map[i][1] = code
    THEN CHOOSE i \in 1 .. Len(map) : map[i][1] = code
    ELSE 0

\* LinearMap::insert leaving the value of a key already held.
LinearMapInsert_KeepsFirst(map, code, rate) ==
    IF KeyIndex(map, code) # 0
    THEN map
    ELSE Append(map, <<code, rate>>)

\* LinearMap::insert: replaces the value of a key already held, in place.
LinearMapInsert(map, code, rate) ==
    IF KeyIndex(map, code) # 0
    THEN [map EXCEPT ![KeyIndex(map, code)] = <<code, rate>>]
    ELSE Append(map, <<code, rate>>)

\* The loop `for (code, rate) in conversion_rates { rates.insert(code, rate) }`
\* over the first n entries of the table.
RECURSIVE RatesUpTo(_, _)
RatesUpTo(table, n) ==
    IF n = 0 THEN <<>>
    ELSE LinearMapInsert(RatesUpTo(table, n - 1), table[n][1], table[n][2])

BuildRates(table) == RatesUpTo(table, Len(table))

\* LinearMap::contains_key / LinearMap::get
HasRate(rates, code) == KeyIndex(rates, code) # 0
RateOf(rates, code) == rates[KeyIndex(rates, code)][2]

\* ------------------------------------------------------ the proof engine
\* Every entry's code has a rate.
AllResolved(rates, entries) ==
    \A i \in 1 .. Len(entries) : HasRate(rates, entries[i][2])

\* The rate-weighted sum of the first n entries: sum of rate * amount.
RECURSIVE WeightedSumUpTo(_, _, _)
WeightedSumUpTo(rates, entries, n) ==
    IF n = 0 THEN 0
    ELSE WeightedSumUpTo(rates, entries, n - 1)
         + RateOf(rates, entries[n][2]) * entries[n][1]

WeightedSum(rates, entries) == WeightedSumUpTo(rates, entries, Len(entries))

\* The solvency statement over the witnesses and public inputs.
Statement(hidden_assets, public_assets, hidden_liabilities, public_liabilities, rates) ==
    WeightedSum(rates, hidden_assets) + WeightedSum(rates, public_assets)
    >= WeightedSum(rates, hidden_liabilities) + WeightedSum(rates, public_liabilities)

\* The commitments the prover makes to its witnesses: to each hidden amount
\* and code under the blinds it is given.
WitnessCommitments(hidden, blinds) ==
    [i \in 1 .. Len(hidden) |->
        <<Compress(Commit(hidden[i][1], blinds[i][1])),
          Compress(Commit(hidden[i][2], blinds[i][2]))>>]

\* prove_solvency refusing to prove a false statement.
prove_solvency_ChecksStatement(hidden_assets, hidden_assets_blinds, public_assets, hidden_liabilities, hidden_liabilities_blinds, public_liabilities, rates) ==
    IF ~(/\ AllResolved(rates, hidden_assets)
         /\ AllResolved(rates, public_assets)
         /\ AllResolved(rates, hidden_liabilities)
         /\ AllResolved(rates, public_liabilities)
         /\ Statement(hidden_assets, public_assets,
                      hidden_liabilities, public_liabilities, rates))
    THEN [ok |-> FALSE, err |-> "SolvencyProveError", proof |-> <<>>]
    ELSE [ok |-> TRUE, err |-> "",
          proof |-> [assets |-> WitnessCommitments(hidden_assets, hidden_assets_blinds),
                     public_assets |-> public_assets,
                     liabilities |-> WitnessCommitments(hidden_liabilities,
                                                        hidden_liabilities_blinds),
                     public_liabilities |-> public_liabilities,
                     rates |-> rates,
                     sat |-> TRUE]]

\* prove_solvency proving whether or not every code has a rate.
prove_solvency_NoRateCheck(hidden_assets, hidden_assets_blinds, public_assets, hidden_liabilities, hidden_liabilities_blinds, public_liabilities, rates) ==
    [ok |-> TRUE, err |-> "",
     proof |-> [assets |-> WitnessCommitments(hidden_assets, hidden_assets_blinds),
                public_assets |-> public_assets,
                liabilities |-> WitnessCommitments(hidden_liabilities,
                                                   hidden_liabilities_blinds),
                public_liabilities |-> public_liabilities,
                rates |-> rates,
                sat |-> /\ AllResolved(rates, hidden_assets)
                        /\ AllResolved(rates, public_assets)
                        /\ AllResolved(rates, hidden_liabilities)
                        /\ AllResolved(rates, public_liabilities)
                        /\ Statement(hidden_assets, public_assets,
                                     hidden_liabilities, public_liabilities, rates)]]

\* zei::crypto::solvency::prove_solvency.  It fails with SolvencyProveError
\* when a code has no rate; otherwise it returns a proof, also of a false
\* statement.  The proof is bound to the commitments, the public inputs and
\* the rates it was made over, and `sat` says whether its constraints hold.
prove_solvency(hidden_assets, hidden_assets_blinds, public_assets, hidden_liabilities, hidden_liabilities_blinds, public_liabilities, rates) ==
    IF ~(/\ AllResolved(rates, hidden_assets)
         /\ AllResolved(rates, public_assets)
         /\ AllResolved(rates, hidden_liabilities)
         /\ AllResolved(rates, public_liabilities))
    THEN [ok |-> FALSE, err |-> "SolvencyProveError", proof |-> <<>>]
    ELSE [ok |-> TRUE, err |-> "",
          proof |-> [assets |-> WitnessCommitments(hidden_assets, hidden_assets_blinds),
                     public_assets |-> public_assets,
                     liabilities |-> WitnessCommitments(hidden_liabilities,
                                                        hidden_liabilities_blinds),
                     public_liabilities |-> public_liabilities,
                     rates |-> rates,
                     sat |-> Statement(hidden_assets, public_assets,
                                       hidden_liabilities, public_liabilities, rates)]]

\* The proof was made over these commitments, public inputs and rates: the
\* hidden witnesses it certifies open the commitments the verifier holds.
ProofBoundTo(proof, hidden_assets_commitments, public_assets, hidden_liabilities_commitments, public_liabilities, rates) ==
    /\ proof.assets = hidden_assets_commitments
    /\ proof.public_assets = public_assets
    /\ proof.liabilities = hidden_liabilities_commitments
    /\ proof.public_liabilities = public_liabilities
    /\ proof.rates = rates

\* zei::crypto::solvency::verify_solvency: accepts a proof whose constraints
\* hold and that is bound to the inputs; anything else is a
\* SolvencyVerificationError.
verify_solvency(hidden_assets_commitments, public_assets, hidden_liabilities_commitments, public_liabilities, rates, proof) ==
    IF /\ AllResolved(rates, public_assets)
       /\ AllResolved(rates, public_liabilities)
       /\ proof.sat
       /\ ProofBoundTo(proof, hidden_assets_commitments, public_assets,
                       hidden_liabilities_commitments, public_liabilities, rates)
    THEN [ok |-> TRUE, err |-> ""]
    ELSE [ok |-> FALSE, err |-> "SolvencyVerificationError"]

\* R1CSProof::to_bytes
to_bytes(proof) == <<"R1CSProof", proof>>

\* R1CSProof::from_bytes: Ok(proof) for the bytes to_bytes writes.
from_bytes(bytes) ==
    IF Len(bytes) = 2 /\ bytes[1] = "R1CSProof"
    THEN [ok |-> TRUE, proof |-> bytes[2]]
    ELSE [ok |-> FALSE, proof |-> <<>>]

\* ------------------------------------------------------------ the audit
\* set_rate replacing the rate of a code the table already holds.
set_rate_Replaces(table, code, rate) == LinearMapInsert(table, code, Scalar(rate))

\* SolvencyAudit::set_rate
set_rate(table, code, rate) == Append(table, <<code, Scalar(rate)>>)

\* prove_solvency_and_store returning Ok without storing the proof.
prove_solvency_and_store_NoStore(table, acc) ==
    LET rates == BuildRates(table)
        proved == prove_solvency(acc.hidden_assets, acc.hidden_assets_blinds,
                                 acc.public_assets,
                                 acc.hidden_liabilities, acc.hidden_liabilities_blinds,
                                 acc.public_liabilities, rates)
    IN IF ~proved.ok
       THEN [account |-> acc, result |-> ZeiError(proved.err)]
       ELSE [account |-> acc, result |-> Ok]

\* prove_solvency_and_store clearing the proof slot when the engine fails.
prove_solvency_and_store_ClearsOnError(table, acc) ==
    LET rates == BuildRates(table)
        proved == prove_solvency(acc.hidden_assets, acc.hidden_assets_blinds,
                                 acc.public_assets,
                                 acc.hidden_liabilities, acc.hidden_liabilities_blinds,
                                 acc.public_liabilities, rates)
    IN IF ~proved.ok
       THEN [account |-> [acc EXCEPT !.proof = None], result |-> ZeiError(proved.err)]
       ELSE [account |-> [acc EXCEPT !.proof = Some(to_bytes(proved.proof))],
             result |-> Ok]

\* prove_solvency_and_store keeping a proof the account already holds.
prove_solvency_and_store_KeepsOld(table, acc) ==
    LET rates == BuildRates(table)
        proved == prove_solvency(acc.hidden_assets, acc.hidden_assets_blinds,
                                 acc.public_assets,
                                 acc.hidden_liabilities, acc.hidden_liabilities_blinds,
                                 acc.public_liabilities, rates)
    IN IF ~proved.ok
       THEN [account |-> acc, result |-> ZeiError(proved.err)]
       ELSE IF acc.proof[1] = "Some"
       THEN [account |-> acc, result |-> Ok]
       ELSE [account |-> [acc EXCEPT !.proof = Some(to_bytes(proved.proof))],
             result |-> Ok]

\* SolvencyAudit::prove_solvency_and_store: the account it leaves and its
\* Result.
prove_solvency_and_store(table, acc) ==
    LET rates == BuildRates(table)
        proved == prove_solvency(acc.hidden_assets, acc.hidden_assets_blinds,
                                 acc.public_assets,
                                 acc.hidden_liabilities, acc.hidden_liabilities_blinds,
                                 acc.public_liabilities, rates)
    IN IF ~proved.ok
       THEN [account |-> acc, result |-> ZeiError(proved.err)]
       ELSE [account |-> [acc EXCEPT !.proof = Some(to_bytes(proved.proof))],
             result |-> Ok]

\* The rate of a code's first entry in the table wins: the loop without
\* LinearMap::insert's replacement.
RECURSIVE FirstWinsUpTo(_, _)
FirstWinsUpTo(table, n) ==
    IF n = 0 THEN <<>>
    ELSE IF KeyIndex(FirstWinsUpTo(table, n - 1), table[n][1]) # 0
         THEN FirstWinsUpTo(table, n - 1)
         ELSE Append(FirstWinsUpTo(table, n - 1), table[n])

\* verify_solvency resolving a code set twice to its first rate.
audit_verify_solvency_FirstWins(table, acc) ==
    IF acc.proof[1] # "Some"
    THEN InputsError
    ELSE LET parsed == from_bytes(acc.proof[2])
         IN IF ~parsed.ok
            THEN DeserializationError
            ELSE LET rates == FirstWinsUpTo(table, Len(table))
                     verified == verify_solvency(acc.hidden_assets_commitments,
                                                 acc.public_assets,
                                                 acc.hidden_liabilities_commitments,
                                                 acc.public_liabilities,
                                                 rates, parsed.proof)
                 IN IF verified.ok THEN Ok ELSE ZeiError(verified.err)

\* verify_solvency resolving the public entries' rates before it looks at
\* the proof slot.
audit_verify_solvency_RatesFirst(table, acc) ==
    LET rates == BuildRates(table)
    IN IF ~(AllResolved(rates, acc.public_assets)
            /\ AllResolved(rates, acc.public_liabilities))
       THEN ZeiError("SolvencyVerificationError")
       ELSE IF acc.proof[1] # "Some"
       THEN InputsError
       ELSE LET parsed == from_bytes(acc.proof[2])
            IN IF ~parsed.ok
               THEN DeserializationError
               ELSE LET verified == verify_solvency(acc.hidden_assets_commitments,
                                                    acc.public_assets,
                                                    acc.hidden_liabilities_commitments,
                                                    acc.public_liabilities,
                                                    rates, parsed.proof)
                    IN IF verified.ok THEN Ok ELSE ZeiError(verified.err)

\* verify_solvency rejecting an account whose hidden plaintext entries are
\* not as many as its commitments.
audit_verify_solvency_ReadsPlaintext(table, acc) ==
    IF acc.proof[1] # "Some"
    THEN InputsError
    ELSE LET parsed == from_bytes(acc.proof[2])
         IN IF ~parsed.ok
            THEN DeserializationError
            ELSE LET rates == BuildRates(table)
                     verified == verify_solvency(acc.hidden_assets_commitments,
                                                 acc.public_assets,
                                                 acc.hidden_liabilities_commitments,
                                                 acc.public_liabilities,
                                                 rates, parsed.proof)
                 IN IF /\ verified.ok
                       /\ Len(acc.hidden_assets) = Len(acc.hidden_assets_commitments)
                       /\ Len(acc.hidden_liabilities)
                              = Len(acc.hidden_liabilities_commitments)
                    THEN Ok
                    ELSE ZeiError("SolvencyVerificationError")

\* SolvencyAudit::verify_solvency (the method): its Result.
audit_verify_solvency(table, acc) ==
    IF acc.proof[1] # "Some"
    THEN InputsError
    ELSE LET parsed == from_bytes(acc.proof[2])
         IN IF ~parsed.ok
            THEN DeserializationError
            ELSE LET rates == BuildRates(table)
                     verified == verify_solvency(acc.hidden_assets_commitments,
                                                 acc.public_assets,
                                                 acc.hidden_liabilities_commitments,
                                                 acc.public_liabilities,
                                                 rates, parsed.proof)
                 IN IF verified.ok THEN Ok ELSE ZeiError(verified.err)

\* ------------------------------------------------------------- actions
\* The call before this one was a successful prove_solvency_and_store on the
\* audit with this rate table.
ProvedJustNow(table) ==
    ret.op = "prove" /\ ret.result = Ok /\ ret.audit = table

\* The stage a call leaves.  Stage 1: a prove succeeded; 2: the verify right
\* after it, on the same audit, succeeded; 7: one more verify was called
\* right after that verify, on the same audit; 3: the update right after
\* stage 2 or 7 succeeded; 4: a verify was called right after it; 5: a prove
\* right after that succeeded; 6: a verify was called right after it on the
\* same audit.  Any other call starts over.
StageAfter(op, table, result) ==
    CASE op = "prove" /\ result = Ok -> IF stage = 4 THEN 5 ELSE 1
      [] op = "verify" /\ stage = 1 /\ ProvedJustNow(table) /\ result = Ok -> 2
      [] op = "verify" /\ stage \in {2, 7} /\ ret.audit = table -> 7
      [] op = "update" /\ stage \in {2, 7} /\ result = Ok -> 3
      [] op = "verify" /\ stage = 3 -> 4
      [] op = "verify" /\ stage = 5 /\ ProvedJustNow(table) -> 6
      [] OTHER -> 0

\* account.update(amount_type, amount, code, blinds, utxo, protocol, host)
Update ==
    /\ NumEntries(account) < MaxEntries
    /\ \E amount_type \in AmountTypes, amount \in Amounts, code \in Codes,
          blinds \in BlindsArgs, utxo \in Utxos :
          LET r == update(account, amount_type, amount, code, blinds, utxo)
          IN /\ account' = r.self
             /\ ret' = [op |-> "update", audit |-> <<>>, fresh |-> FALSE,
                        result |-> r.result]
             /\ stage' = StageAfter("update", <<>>, r.result)
    /\ pre' = account
    /\ UNCHANGED <<conversion_rates, lock, calls>>
    /\ UNCHANGED <<ledger_vars, staking_vars>>

\* audit.set_rate(code, rate)
SetRate ==
    /\ Len(conversion_rates) < MaxRates
    /\ \E arg \in RateArgs :
          conversion_rates' = set_rate(conversion_rates, arg[1], arg[2])
    /\ ret' = [op |-> "set_rate", audit |-> conversion_rates', fresh |-> FALSE,
               result |-> Ok]
    /\ pre' = account
    /\ stage' = StageAfter("set_rate", conversion_rates', Ok)
    /\ UNCHANGED <<account, lock, calls>>
    /\ UNCHANGED <<ledger_vars, staking_vars>>

\* audit.prove_solvency_and_store(&mut account), on the audit with this rate
\* table.
ProveOn(table) ==
    /\ LET r == prove_solvency_and_store(table, account)
       IN /\ account' = r.account
          /\ ret' = [op |-> "prove", audit |-> table, fresh |-> FALSE,
                     result |-> r.result]
          /\ stage' = StageAfter("prove", table, r.result)
    /\ pre' = account
    /\ UNCHANGED <<conversion_rates, lock, calls>>
    /\ UNCHANGED <<ledger_vars, staking_vars>>

\* VerifyOn consuming the proof it checks.
VerifyOn_TakesProof(table) ==
    /\ ret' = [op |-> "verify", audit |-> table,
               fresh |-> ProvedJustNow(table),
               result |-> audit_verify_solvency(table, account)]
    /\ stage' = StageAfter("verify", table, audit_verify_solvency(table, account))
    /\ pre' = account
    /\ account' = [account EXCEPT !.proof = None]
    /\ UNCHANGED <<conversion_rates, lock, calls>>
    /\ UNCHANGED <<ledger_vars, staking_vars>>

\* audit.verify_solvency(&account), on the audit with this rate table.
VerifyOn(table) ==
    /\ ret' = [op |-> "verify", audit |-> table,
               fresh |-> ProvedJustNow(table),
               result |-> audit_verify_solvency(table, account)]
    /\ stage' = StageAfter("verify", table, audit_verify_solvency(table, account))
    /\ pre' = account
    /\ UNCHANGED <<account, conversion_rates, lock, calls>>
    /\ UNCHANGED <<ledger_vars, staking_vars>>

\* The audit the callers fill with set_rate proves, verifies.
Prove == ProveOn(conversion_rates)
Verify == VerifyOn(conversion_rates)

\* One of several audits, each with a rate table set beforehand, proves,
\* verifies.
ProveAny == \E table \in AuditTables : ProveOn(table)
VerifyAny == \E table \in AuditTables : VerifyOn(table)

Next == Update \/ SetRate \/ Prove \/ Verify

\* One account under one audit.
Spec == Init /\ [][Next]_vars

NextAudits == Update \/ ProveAny \/ VerifyAny

\* One account, proved and verified under several audits.
SpecAudits == Init /\ [][NextAudits]_vars

\* account.proof = Some(bytes): the field is public, and an account read
\* back from storage carries whatever bytes were stored.
WriteProof ==
    /\ \E bytes \in ForeignBytes : account' = [account EXCEPT !.proof = Some(bytes)]
    /\ ret' = [op |-> "write", audit |-> <<>>, fresh |-> FALSE, result |-> Ok]
    /\ stage' = StageAfter("write", <<>>, Ok)
    /\ pre' = account
    /\ UNCHANGED <<conversion_rates, lock, calls>>
    /\ UNCHANGED <<ledger_vars, staking_vars>>

NextBytes == Update \/ ProveAny \/ VerifyAny \/ WriteProof

\* One account whose proof bytes the callers may write, under several
\* audits.
SpecBytes == Init /\ [][NextBytes]_vars

\* ------------------------------------------ callers sharing one account
\* The fields update pushes on, in the order its statements reach them.
PushOrder ==
    <<"public_assets", "public_liabilities",
      "hidden_assets", "hidden_assets_blinds", "hidden_assets_commitments",
      "hidden_liabilities", "hidden_liabilities_blinds",
      "hidden_liabilities_commitments">>

\* The writes a call that returns Ok makes, one statement each, to take the
\* account from `before` to `after`: its pushes, then the assignment to
\* proof.
Writes(before, after) ==
    LET grown == SelectSeq(PushOrder, LAMBDA f : Len(after[f]) > Len(before[f]))
    IN [i \in 1 .. Len(grown) |->
           <<"push", grown[i], after[grown[i]][Len(after[grown[i]])]>>]
       \o <<<<"proof", after.proof>>>>

\* The lock gives the account to a writer while verify calls are reading it.
CanWrite_AmongReaders(t) == \A u \in Callers \ {t} : lock[u] # "write"

\* &mut self, account: &mut AssetAndLiabilityAccount: the lock gives the
\* account to one caller, while no other caller holds it in any way.
CanWrite(t) == \A u \in Callers \ {t} : lock[u] = "none"

\* account: &AssetAndLiabilityAccount: the lock gives the account to
\* readers while no caller writes it.
CanRead(t) == \A u \in Callers \ {t} : lock[u] # "write"

\* A caller takes the lock and enters update: the query, the checks and
\* the values to push are computed; nothing is written yet. An error
\* returns with nothing to write.
CallUpdate ==
    /\ NumEntries(account) < MaxEntries
    /\ \E t \in Callers :
          /\ calls[t] = Idle
          /\ CanWrite(t)
          /\ \E amount_type \in AmountTypes, amount \in Amounts, code \in Codes,
                blinds \in BlindsArgs, utxo \in Utxos :
                LET r == update(account, amount_type, amount, code, blinds, utxo)
                IN calls' = [calls EXCEPT ![t] =
                                [pc |-> "update",
                                 pending |-> IF r.result = Ok
                                             THEN Writes(account, r.self)
                                             ELSE <<>>]]
          /\ lock' = [lock EXCEPT ![t] = "write"]
    /\ UNCHANGED <<account, conversion_rates, ret, pre, stage>>
    /\ UNCHANGED <<ledger_vars, staking_vars>>

\* A caller takes the lock and enters prove_solvency_and_store on one of the
\* audits: the rates are built and the proof is made over the sequences as
\* they are read now; the proof is not stored yet. An error returns with
\* nothing to write.
CallProve ==
    /\ \E t \in Callers, table \in AuditTables :
          /\ calls[t] = Idle
          /\ CanWrite(t)
          /\ LET r == prove_solvency_and_store(table, account)
             IN calls' = [calls EXCEPT ![t] =
                             [pc |-> "prove",
                              pending |-> IF r.result = Ok
                                          THEN <<<<"proof", r.account.proof>>>>
                                          ELSE <<>>]]
          /\ lock' = [lock EXCEPT ![t] = "write"]
    /\ UNCHANGED <<account, conversion_rates, ret, pre, stage>>
    /\ UNCHANGED <<ledger_vars, staking_vars>>

\* A caller takes the lock to read and enters verify_solvency, which reads
\* the account for as long as it is in flight.
CallVerify ==
    /\ \E t \in Callers :
          /\ calls[t] = Idle
          /\ CanRead(t)
          /\ calls' = [calls EXCEPT ![t] = [pc |-> "verify", pending |-> <<>>]]
          /\ lock' = [lock EXCEPT ![t] = "read"]
    /\ UNCHANGED <<account, conversion_rates, ret, pre, stage>>
    /\ UNCHANGED <<ledger_vars, staking_vars>>

\* The next statement of a call in flight is a push.
Push ==
    /\ \E t \in Callers :
          /\ calls[t].pending # <<>>
          /\ Head(calls[t].pending)[1] = "push"
          /\ account' = [account EXCEPT ![Head(calls[t].pending)[2]] =
                            Append(@, Head(calls[t].pending)[3])]
          /\ calls' = [calls EXCEPT ![t].pending = Tail(@)]
    /\ UNCHANGED <<conversion_rates, ret, pre, stage, lock>>
    /\ UNCHANGED <<ledger_vars, staking_vars>>

\* The next statement of a call in flight assigns the proof: self.proof =
\* None in update, account.proof = Some(proof.to_bytes()) in
\* prove_solvency_and_store.
SetProof ==
    /\ \E t \in Callers :
          /\ calls[t].pending # <<>>
          /\ Head(calls[t].pending)[1] = "proof"
          /\ account' = [account EXCEPT !.proof = Head(calls[t].pending)[2]]
          /\ calls' = [calls EXCEPT ![t].pending = Tail(@)]
    /\ UNCHANGED <<conversion_rates, ret, pre, stage, lock>>
    /\ UNCHANGED <<ledger_vars, staking_vars>>

\* A call with nothing left to write returns, and its caller lets go of the
\* lock.
Return ==
    /\ \E t \in Callers :
          /\ calls[t].pc # "idle"
          /\ calls[t].pending = <<>>
          /\ calls' = [calls EXCEPT ![t] = Idle]
          /\ lock' = [lock EXCEPT ![t] = "none"]
    /\ UNCHANGED <<account, conversion_rates, ret, pre, stage>>
    /\ UNCHANGED <<ledger_vars, staking_vars>>

NextCallers == CallUpdate \/ CallProve \/ CallVerify \/ Push \/ SetProof \/ Return

\* One account shared by several callers, each call under the account's
\* lock, one statement of one call at a time.
SpecCallers == Init /\ [][NextCallers]_vars

\* ------------------------------------------- account module (impls.rs)
\* U256::MAX of the model's balances.
U256Max == 1
U256 == 0 .. U256Max

\* ruc's error with the message given to d!().
RucError(message) == [kind |-> "Error", detail |-> message]

\* U256::checked_add, U256::checked_sub
checked_add(a, b) == IF a + b > U256Max THEN None ELSE Some(a + b)
checked_sub(a, b) == IF a < b THEN None ELSE Some(a - b)

\* U256::saturating_add
saturating_add(a, b) == IF a + b > U256Max THEN U256Max ELSE a + b

\* Option::unwrap_or_default for Option<SmartAccount> and Option<U256>
unwrap_or_default_account(found) ==
    IF found = None THEN DefaultSmartAccount ELSE found[2]
unwrap_or_default_u256(found) == IF found = None THEN 0 ELSE found[2]

\* AccountAsset::account_of(ctx, who, None)
account_of(c, who) == c.AccountStore[who]

\* AccountAsset::total_issuance
total_issuance(c) == unwrap_or_default_u256(c.TotalIssuance)

\* AccountAsset::balance, reserved_balance, nonce
balance(c, who) == unwrap_or_default_account(account_of(c, who)).balance
reserved_balance(c, who) == unwrap_or_default_account(account_of(c, who)).reserved
nonce(c, who) == unwrap_or_default_account(account_of(c, who)).nonce

\* AccountStore::insert(ctx.state.write().borrow_mut(), who, &sa)
AccountStoreInsert(c, who, sa) == [c EXCEPT !.AccountStore[who] = Some(sa)]

\* TotalIssuance::put(ctx.state.write().borrow_mut(), &issuance)
TotalIssuancePut(c, issuance) == [c EXCEPT !.TotalIssuance = Some(issuance)]

\* AccountAsset::inc_nonce: the Context it leaves and its Result.
inc_nonce(c, who) ==
    IF account_of(c, who) = None
    THEN [ctx |-> c, result |-> RucError("account does not exist")]
    ELSE LET sa == account_of(c, who)[2]
         IN [ctx |-> AccountStoreInsert(c, who,
                         [sa EXCEPT !.nonce = saturating_add(sa.nonce, 1)]),
             result |-> Ok]

\* transfer crediting the destination without debiting the sender.
transfer_KeepsSender(c, sender, dest, amount) ==
    IF amount = 0 \/ sender = dest
    THEN [ctx |-> c, result |-> Ok]
    ELSE IF account_of(c, sender) = None
    THEN [ctx |-> c, result |-> RucError("sender does not exist")]
    ELSE LET from_account == account_of(c, sender)[2]
             to_account == unwrap_or_default_account(account_of(c, dest))
             debited == checked_sub(from_account.balance, amount)
             credited == checked_add(to_account.balance, amount)
         IN IF debited = None
            THEN [ctx |-> c, result |-> RucError("insufficient balance")]
            ELSE IF credited = None
            THEN [ctx |-> c, result |-> RucError("balance overflow")]
            ELSE [ctx |-> AccountStoreInsert(c, dest,
                              [to_account EXCEPT !.balance = credited[2]]),
                  result |-> Ok]

\* transfer inserting the sender before it adds to the destination.
transfer_InsertsSenderFirst(c, sender, dest, amount) ==
    IF amount = 0 \/ sender = dest
    THEN [ctx |-> c, result |-> Ok]
    ELSE IF account_of(c, sender) = None
    THEN [ctx |-> c, result |-> RucError("sender does not exist")]
    ELSE LET from_account == account_of(c, sender)[2]
             to_account == unwrap_or_default_account(account_of(c, dest))
             debited == checked_sub(from_account.balance, amount)
             credited == checked_add(to_account.balance, amount)
         IN IF debited = None
            THEN [ctx |-> c, result |-> RucError("insufficient balance")]
            ELSE LET c1 == AccountStoreInsert(c, sender,
                               [from_account EXCEPT !.balance = debited[2]])
                 IN IF credited = None
                    THEN [ctx |-> c1, result |-> RucError("balance overflow")]
                    ELSE [ctx |-> AccountStoreInsert(c1, dest,
                                      [to_account EXCEPT !.balance = credited[2]]),
                          result |-> Ok]

\* AccountAsset::transfer: the Context it leaves and its Result.
transfer(c, sender, dest, amount) ==
    IF amount = 0 \/ sender = dest
    THEN [ctx |-> c, result |-> Ok]
    ELSE IF account_of(c, sender) = None
    THEN [ctx |-> c, result |-> RucError("sender does not exist")]
    ELSE LET from_account == account_of(c, sender)[2]
             to_account == unwrap_or_default_account(account_of(c, dest))
             debited == checked_sub(from_account.balance, amount)
             credited == checked_add(to_account.balance, amount)
         IN IF debited = None
            THEN [ctx |-> c, result |-> RucError("insufficient balance")]
            ELSE IF credited = None
            THEN [ctx |-> c, result |-> RucError("balance overflow")]
            ELSE LET c1 == AccountStoreInsert(c, sender,
                               [from_account EXCEPT !.balance = debited[2]])
                 IN [ctx |-> AccountStoreInsert(c1, dest,
                                 [to_account EXCEPT !.balance = credited[2]]),
                     result |-> Ok]

\* AccountAsset::mint: the Context it leaves and its Result. The account is
\* inserted before the issuance is added up.
mint(c, target, amount) ==
    IF amount = 0
    THEN [ctx |-> c, result |-> Ok]
    ELSE LET target_account == unwrap_or_default_account(account_of(c, target))
             credited == checked_add(target_account.balance, amount)
         IN IF credited = None
            THEN [ctx |-> c, result |-> RucError("balance overflow")]
            ELSE LET c1 == AccountStoreInsert(c, target,
                               [target_account EXCEPT !.balance = credited[2]])
                     issuance == checked_add(total_issuance(c1), amount)
                 IN IF issuance = None
                    THEN [ctx |-> c1, result |-> RucError("issuance overflow")]
                    ELSE [ctx |-> TotalIssuancePut(c1, issuance[2]),
                          result |-> Ok]

\* burn leaving the total issuance as it was.
burn_KeepsIssuance(c, target, amount) ==
    IF amount = 0
    THEN [ctx |-> c, result |-> Ok]
    ELSE IF account_of(c, target) = None
    THEN [ctx |-> c, result |-> RucError("account does not exist")]
    ELSE LET target_account == account_of(c, target)[2]
             debited == checked_sub(target_account.balance, amount)
         IN IF debited = None
            THEN [ctx |-> c, result |-> RucError("insufficient balance")]
            ELSE [ctx |-> AccountStoreInsert(c, target,
                              [target_account EXCEPT !.balance = debited[2]]),
                  result |-> Ok]

\* AccountAsset::burn: the Context it leaves and its Result. The account is
\* inserted before the issuance is taken down.
burn(c, target, amount) ==
    IF amount = 0
    THEN [ctx |-> c, result |-> Ok]
    ELSE IF account_of(c, target) = None
    THEN [ctx |-> c, result |-> RucError("account does not exist")]
    ELSE LET target_account == account_of(c, target)[2]
             debited == checked_sub(target_account.balance, amount)
         IN IF debited = None
            THEN [ctx |-> c, result |-> RucError("insufficient balance")]
            ELSE LET c1 == AccountStoreInsert(c, target,
                               [target_account EXCEPT !.balance = debited[2]])
                     issuance == checked_sub(total_issuance(c1), amount)
                 IN IF issuance = None
                    THEN [ctx |-> c1, result |-> RucError("insufficient issuance")]
                    ELSE [ctx |-> TotalIssuancePut(c1, issuance[2]),
                          result |-> Ok]

\* AccountAsset::withdraw: the Context it leaves and its Result.
withdraw(c, who, value) ==
    IF value = 0
    THEN [ctx |-> c, result |-> Ok]
    ELSE IF account_of(c, who) = None
    THEN [ctx |-> c, result |-> RucError("account does not exist")]
    ELSE LET sa == account_of(c, who)[2]
             debited == checked_sub(sa.balance, value)
             reserved == IF debited = None THEN None
                         ELSE checked_add(sa.reserved, value)
         IN IF debited = None
            THEN [ctx |-> c, result |-> RucError("insufficient balance")]
            ELSE IF reserved = None
            THEN [ctx |-> c, result |-> RucError("reserved balance overflow")]
            ELSE [ctx |-> AccountStoreInsert(c, who,
                              [sa EXCEPT !.balance = debited[2],
                                         !.reserved = reserved[2]]),
                  result |-> Ok]

\* refund crediting the balance without taking from the reserved balance.
refund_KeepsReserved(c, who, value) ==
    IF value = 0
    THEN [ctx |-> c, result |-> Ok]
    ELSE IF account_of(c, who) = None
    THEN [ctx |-> c, result |-> RucError("account does not exist")]
    ELSE LET sa == account_of(c, who)[2]
             released == checked_sub(sa.reserved, value)
             credited == IF released = None THEN None
                         ELSE checked_add(sa.balance, value)
         IN IF released = None
            THEN [ctx |-> c, result |-> RucError("insufficient reserved balance")]
            ELSE IF credited = None
            THEN [ctx |-> c, result |-> RucError("balance overflow")]
            ELSE [ctx |-> AccountStoreInsert(c, who,
                              [sa EXCEPT !.balance = credited[2]]),
                  result |-> Ok]

\* AccountAsset::refund: the Context it leaves and its Result.
refund(c, who, value) ==
    IF value = 0
    THEN [ctx |-> c, result |-> Ok]
    ELSE IF account_of(c, who) = None
    THEN [ctx |-> c, result |-> RucError("account does not exist")]
    ELSE LET sa == account_of(c, who)[2]
             released == checked_sub(sa.reserved, value)
             credited == IF released = None THEN None
                         ELSE checked_add(sa.balance, value)
         IN IF released = None
            THEN [ctx |-> c, result |-> RucError("insufficient reserved balance")]
            ELSE IF credited = None
            THEN [ctx |-> c, result |-> RucError("balance overflow")]
            ELSE [ctx |-> AccountStoreInsert(c, who,
                              [sa EXCEPT !.reserved = released[2],
                                         !.balance = credited[2]]),
                  result |-> Ok]

\* What the model keeps of a call that took the Context from `c` and
\* returned `r`: its name, its Result, and whether it wrote the state.
CallOf(op, c, r) == [op |-> op, result |-> r.result, wrote |-> r.ctx # c]

Transfer ==
    /\ \E sender \in Addresses, dest \in Addresses, amount \in U256 :
          LET r == transfer(ctx, sender, dest, amount)
          IN ctx' = r.ctx /\ call' = CallOf("transfer", ctx, r)
    /\ UNCHANGED <<solvency_vars, staking_vars>>

Mint ==
    /\ \E target \in Addresses, amount \in U256 :
          LET r == mint(ctx, target, amount)
          IN ctx' = r.ctx /\ call' = CallOf("mint", ctx, r)
    /\ UNCHANGED <<solvency_vars, staking_vars>>

Burn ==
    /\ \E target \in Addresses, amount \in U256 :
          LET r == burn(ctx, target, amount)
          IN ctx' = r.ctx /\ call' = CallOf("burn", ctx, r)
    /\ UNCHANGED <<solvency_vars, staking_vars>>

Withdraw ==
    /\ \E who \in Addresses, value \in U256 :
          LET r == withdraw(ctx, who, value)
          IN ctx' = r.ctx /\ call' = CallOf("withdraw", ctx, r)
    /\ UNCHANGED <<solvency_vars, staking_vars>>

Refund ==
    /\ \E who \in Addresses, value \in U256 :
          LET r == refund(ctx, who, value)
          IN ctx' = r.ctx /\ call' = CallOf("refund", ctx, r)
    /\ UNCHANGED <<solvency_vars, staking_vars>>

NextLedger == Transfer \/ Mint \/ Burn \/ Withdraw \/ Refund

\* The accounts of one chain under the calls of the account module that
\* move balances.
SpecLedger == Init /\ [][NextLedger]_vars

\* ------------------------------------- staking: ClaimOps (claim.rs)
\* The width of the model's block heights: cur_height is a u64 of this
\* many bits, and `as i64` reads the same bits as a signed number.
HeightBits == 3
Heights == 0 .. (2 ^ HeightBits - 1)

\* staking.cur_height() as i64
AsI64(height) ==
    IF height >= 2 ^ (HeightBits - 1) THEN height - 2 ^ HeightBits ELSE height

\* CFG.checkpoint.evm_staking_inital_height
evm_staking_inital_height == 1

\* Claims the model lets the two staking instances take together.
MaxClaims == 2

\* XfrPublicKey; the keys that hold a delegation with rewards to claim.
XfrPublicKeys == {1, 2}
Delegators == {1}

\* Data: amount: Option<u64>, nonce: NoReplayToken
Bodies == [amount : {None, Some(1)}, nonce : {0, 1}]

\* td_addr: Option<Vec<u8>>
ValidatorAddrs == {None, Some(<<7>>)}

\* Data::to_bytes: bincode writes the fields in their order.
Data_to_bytes(body) == <<body.amount, body.nonce>>

\* XfrKeyPair::sign: the signature says who signed what.
sign(key, bytes) == [signer |-> key, message |-> bytes]

\* XfrPublicKey::verify
XfrVerify(pubkey, bytes, signature) ==
    IF signature = sign(pubkey, bytes) THEN Ok ELSE RucError("signature")

\* ClaimOps::new
new(td_addr, keypair, amount, token) ==
    LET body == [amount |-> amount, nonce |-> token]
    IN [body |-> body, pubkey |-> keypair,
        signature |-> sign(keypair, Data_to_bytes(body)), td_addr |-> td_addr]

\* ClaimOps::set_nonce: the body changes, the signature stays.
set_nonce(ops, token) == [ops EXCEPT !.body.nonce = token]

\* The ClaimOps a transaction can carry: any body, any key, any signature
\* some key made over some body, with or without a validator address.
ClaimOpsSet ==
    [body : Bodies,
     pubkey : XfrPublicKeys,
     signature : {sign(key, Data_to_bytes(body)) : key \in XfrPublicKeys, body \in Bodies},
     td_addr : ValidatorAddrs]

\* ClaimOps::verify
verify(ops) == XfrVerify(ops.pubkey, Data_to_bytes(ops.body), ops.signature)

\* Staking::claim(pubkey, amount): the claim is taken for a key that has a
\* delegation.
StakingClaim(st, pubkey, amount) ==
    IF pubkey \in Delegators
    THEN [staking |-> [st EXCEPT !.claims = Append(@, <<pubkey, amount>>)],
          result |-> Ok]
    ELSE [staking |-> st, result |-> RucError("claim")]

\* EVM_STAKING.get()?.write().claim(&td_addr, &pubkey)
EvmClaim(cell, td_addr, pubkey) ==
    IF cell = None
    THEN [evm |-> cell, result |-> RucError("EVM_STAKING")]
    ELSE IF pubkey \in Delegators
    THEN [evm |-> Some([cell[2] EXCEPT !.claims = Append(@, <<td_addr, pubkey>>)]),
          result |-> Ok]
    ELSE [evm |-> cell, result |-> RucError("claim")]

\* apply claiming without a look at the signature.
apply_Unverified(ops, st, cell) ==
    IF AsI64(st.cur_height) > evm_staking_inital_height
    THEN IF ops.td_addr = None
         THEN [staking |-> st, evm |-> cell,
               result |-> RucError("Missing validator addr.")]
         ELSE LET claimed == EvmClaim(cell, ops.td_addr[2], ops.pubkey)
              IN [staking |-> st, evm |-> claimed.evm, result |-> claimed.result]
    ELSE LET claimed == StakingClaim(st, ops.pubkey, ops.body.amount)
         IN [staking |-> claimed.staking, evm |-> cell, result |-> claimed.result]

\* apply taking the EVM path from the checkpoint height on.
apply_FromCheckpoint(ops, st, cell) ==
    IF AsI64(st.cur_height) >= evm_staking_inital_height
    THEN IF verify(ops) # Ok
         THEN [staking |-> st, evm |-> cell, result |-> verify(ops)]
         ELSE IF ops.td_addr = None
         THEN [staking |-> st, evm |-> cell,
               result |-> RucError("Missing validator addr.")]
         ELSE LET claimed == EvmClaim(cell, ops.td_addr[2], ops.pubkey)
              IN [staking |-> st, evm |-> claimed.evm, result |-> claimed.result]
    ELSE IF verify(ops) # Ok
         THEN [staking |-> st, evm |-> cell, result |-> verify(ops)]
         ELSE LET claimed == StakingClaim(st, ops.pubkey, ops.body.amount)
              IN [staking |-> claimed.staking, evm |-> cell,
                  result |-> claimed.result]

\* ClaimOps::apply: the Staking instance and the EVM staking cell it
\* leaves, and its Result.
apply(ops, st, cell) ==
    IF AsI64(st.cur_height) > evm_staking_inital_height
    THEN IF verify(ops) # Ok
         THEN [staking |-> st, evm |-> cell, result |-> verify(ops)]
         ELSE IF ops.td_addr = None
         THEN [staking |-> st, evm |-> cell,
               result |-> RucError("Missing validator addr.")]
         ELSE LET claimed == EvmClaim(cell, ops.td_addr[2], ops.pubkey)
              IN [staking |-> st, evm |-> claimed.evm, result |-> claimed.result]
    ELSE IF verify(ops) # Ok
         THEN [staking |-> st, evm |-> cell, result |-> verify(ops)]
         ELSE LET claimed == StakingClaim(st, ops.pubkey, ops.body.amount)
              IN [staking |-> claimed.staking, evm |-> cell,
                  result |-> claimed.result]

\* ClaimOps::check_run
check_run(ops, staking_simulator, cell) == apply(ops, staking_simulator, cell)

\* The claims the two instances have taken.
ClaimsTaken ==
    Len(staking.claims) + (IF EVM_STAKING = None THEN 0 ELSE Len(EVM_STAKING[2].claims))

\* What the model keeps of a ClaimOps run: the method, whether the
\* signature verified, the validator address it carried, its Result.
AppliedOf(method, ops, r) ==
    [method |-> method, verified |-> verify(ops) = Ok, td_addr |-> ops.td_addr,
     result |-> r.result]

\* ops.apply(&mut staking)
Apply ==
    /\ ClaimsTaken < MaxClaims
    /\ \E ops \in ClaimOpsSet :
          LET r == apply(ops, staking, EVM_STAKING)
          IN /\ staking' = r.staking
             /\ EVM_STAKING' = r.evm
             /\ applied' = AppliedOf("apply", ops, r)
    /\ UNCHANGED <<solvency_vars, ledger_vars>>

\* ops.check_run(&mut staking), the instance given being the simulator.
CheckRun ==
    /\ ClaimsTaken < MaxClaims
    /\ \E ops \in ClaimOpsSet :
          LET r == check_run(ops, staking, EVM_STAKING)
          IN /\ staking' = r.staking
             /\ EVM_STAKING' = r.evm
             /\ applied' = AppliedOf("check_run", ops, r)
    /\ UNCHANGED <<solvency_vars, ledger_vars>>

\* The instance is taken to another block height.
SetHeight ==
    /\ \E height \in Heights \ {staking.cur_height} :
          staking' = [staking EXCEPT !.cur_height = height]
    /\ UNCHANGED <<EVM_STAKING, applied, solvency_vars, ledger_vars>>

\* The process sets the EVM staking cell, once.
SetEvmStaking ==
    /\ EVM_STAKING = None
    /\ EVM_STAKING' = Some([claims |-> <<>>])
    /\ UNCHANGED <<staking, applied, solvency_vars, ledger_vars>>

NextStaking == Apply \/ CheckRun \/ SetHeight \/ SetEvmStaking

\* One Staking instance and the EVM staking cell under claim operations.
SpecStaking == Init /\ [][NextStaking]_vars

\* ------------------------------------------------------------ properties
\* The eight sequences of an account.
Sequences8(a) ==
    <<a.public_assets, a.hidden_assets, a.hidden_assets_blinds,
      a.hidden_assets_commitments, a.public_liabilities, a.hidden_liabilities,
      a.hidden_liabilities_blinds, a.hidden_liabilities_commitments>>

Present(a) == a.proof[1] = "Some"

\* The last call was this operation and it returned Ok / an error.
Succeeded(op) == ret.op = op /\ ret.result = Ok
Failed(op) == ret.op = op /\ ret.result # Ok

\* C1: when update returns Ok, on the plaintext or the confidential branch,
\* for an asset or a liability, account.proof is None afterwards, whatever
\* it was before the call.
C1_UpdateClearsProof ==
    Succeeded("update") => account.proof = None

\* A successful update of an account that carried a proof.
C1_Witness ==
    /\ Succeeded("update")
    /\ Present(pre)
    /\ Sequences8(account) # Sequences8(pre)

\* The proof held by the account is the proof prove_solvency makes over the
\* account's present sequences, under the rates it records.
ProofOverCurrentSequences ==
    LET parsed == from_bytes(account.proof[2])
        again == prove_solvency(account.hidden_assets, account.hidden_assets_blinds,
                                account.public_assets,
                                account.hidden_liabilities,
                                account.hidden_liabilities_blinds,
                                account.public_liabilities, parsed.proof.rates)
    IN parsed.ok /\ again.ok /\ again.proof = parsed.proof

\* C2: a proof is present only when it was made over the account's present
\* sequences (no successful update came after the successful prove that
\* stored it, and a call that changes a sequence leaves no proof); the slot
\* goes from absent to present by a successful prove alone, from present to
\* absent by a successful update alone, and its content changes in no other
\* call.
C2_ProofSlot ==
    /\ Present(account) => ProofOverCurrentSequences
    /\ (~Present(pre) /\ Present(account)) => Succeeded("prove")
    /\ (Present(pre) /\ ~Present(account)) => Succeeded("update")
    /\ account.proof # pre.proof => (Succeeded("prove") \/ Succeeded("update"))
    /\ Succeeded("prove") => Present(account)
    /\ Succeeded("update") => ~Present(account)
    /\ Sequences8(account) # Sequences8(pre) => ~Present(account)

\* A proof is held over two entries, one of them hidden, after a rate was set
\* with the proof in place.
C2_Witness ==
    /\ Present(account)
    /\ NumEntries(account) = 2
    /\ Len(account.hidden_assets) + Len(account.hidden_liabilities) >= 1
    /\ ret.op = "set_rate"

\* C3: for the hidden assets and for the hidden liabilities, the plaintext
\* sequence, the blind sequence and the commitment sequence have the same
\* length, after successful and after failed updates.
C3_HiddenLengths ==
    /\ Len(account.hidden_assets) = Len(account.hidden_assets_blinds)
    /\ Len(account.hidden_assets) = Len(account.hidden_assets_commitments)
    /\ Len(account.hidden_liabilities) = Len(account.hidden_liabilities_blinds)
    /\ Len(account.hidden_liabilities) = Len(account.hidden_liabilities_commitments)

\* An update failed on a malformed commitment, on an account that holds a
\* hidden entry.
C3_Witness ==
    /\ ret.op = "update"
    /\ ret.result = ZeiError("DecompressElementError")
    /\ Len(account.hidden_assets) + Len(account.hidden_liabilities) >= 1

\* C4: when update fails (query error, amount mismatch, missing blinds,
\* malformed commitment), none of the eight sequences is modified.
C4_FailedUpdateNoMutation ==
    Failed("update") => Sequences8(account) = Sequences8(pre)

\* An update failed on a malformed commitment with blinds given, on an
\* account that holds entries.
C4_Witness ==
    /\ ret.op = "update"
    /\ ret.result = ZeiError("DecompressElementError")
    /\ NumEntries(pre) >= 1

\* C5: when prove fails, account.proof keeps its value: None stays None and
\* a stored proof is left untouched.
C5_FailedProveKeepsProof ==
    Failed("prove") => account.proof = pre.proof

\* A prove failed on an account that carried a proof.
C5_Witness ==
    /\ Failed("prove")
    /\ Present(pre)

\* The rates of the audit the last call was made on.
CallRates == BuildRates(ret.audit)

\* Every code of the account's four value sequences has a rate.
AllRated(a, rates) ==
    /\ AllResolved(rates, a.hidden_assets)
    /\ AllResolved(rates, a.public_assets)
    /\ AllResolved(rates, a.hidden_liabilities)
    /\ AllResolved(rates, a.public_liabilities)

\* The rate-weighted assets are at least the rate-weighted liabilities.
Solvent(a, rates) ==
    Statement(a.hidden_assets, a.public_assets,
              a.hidden_liabilities, a.public_liabilities, rates)

\* Every stored commitment pair opens to its hidden entry under its stored
\* blind pair.
Opens(a) ==
    /\ a.hidden_assets_commitments =
           WitnessCommitments(a.hidden_assets, a.hidden_assets_blinds)
    /\ a.hidden_liabilities_commitments =
           WitnessCommitments(a.hidden_liabilities, a.hidden_liabilities_blinds)

\* The error kinds of the design, as the code returns them.
ProveFailed == ZeiError("SolvencyProveError")
VerifyFailed == ZeiError("SolvencyVerificationError")
MissingProof == InputsError

\* A MissingConversionRate is an error that is none of the other kinds.
IsMissingConversionRate(result) ==
    result \notin {Ok, InputsError, DeserializationError, QueryError,
                   ZeiError("DecompressElementError"), ProveFailed, VerifyFailed}

\* C6 as stated: for every account built by successful updates and every
\* rate table with a rate for every referenced code, if the weighted assets
\* are at least the weighted liabilities then prove succeeds and the verify
\* called right after it on the same audit succeeds.
C6_Original ==
    /\ (ret.op = "prove" /\ AllRated(account, CallRates) /\ Solvent(account, CallRates))
           => ret.result = Ok
    /\ (ret.op = "verify" /\ ret.fresh /\ AllRated(account, CallRates)
            /\ Solvent(account, CallRates))
           => ret.result = Ok

\* C6, amended: the same, for the accounts whose stored commitments open to
\* their hidden entries under the stored blinds (the amount, code and blinds
\* the caller gave update are those of the ledger output).
C6_ProveThenVerify ==
    /\ (ret.op = "prove" /\ AllRated(account, CallRates) /\ Solvent(account, CallRates))
           => ret.result = Ok
    /\ (ret.op = "verify" /\ ret.fresh /\ AllRated(account, CallRates)
            /\ Solvent(account, CallRates) /\ Opens(account))
           => ret.result = Ok

\* A verify right after a prove accepted a solvent account that holds a
\* hidden asset and a liability.
C6_Witness ==
    /\ ret.op = "verify" /\ ret.fresh /\ ret.result = Ok
    /\ Opens(account)
    /\ Len(account.hidden_assets) = 1
    /\ Len(account.public_liabilities) + Len(account.hidden_liabilities) = 1

\* C7 as stated: with a rate for every code, if the weighted liabilities
\* exceed the weighted assets, prove fails with ProveFailed and stores no
\* proof.
C7_Original ==
    (ret.op = "prove" /\ AllRated(account, CallRates) /\ ~Solvent(account, CallRates))
        => (ret.result = ProveFailed /\ account.proof = pre.proof)

\* C7, amended: with a rate for every code, if the weighted liabilities
\* exceed the weighted assets, prove does not fail: it returns Ok and stores
\* a proof of the false statement, one whose constraints do not hold.
C7_InsolventProveStores ==
    (ret.op = "prove" /\ AllRated(account, CallRates) /\ ~Solvent(account, CallRates))
        => /\ ret.result = Ok
           /\ Present(account)
           /\ from_bytes(account.proof[2]).ok
           /\ ~from_bytes(account.proof[2]).proof.sat

\* A prove on an account of one hidden asset and one larger hidden liability
\* of the same code.
C7_Witness ==
    /\ ret.op = "prove"
    /\ AllRated(account, CallRates) /\ ~Solvent(account, CallRates)
    /\ Len(account.hidden_assets) = 1 /\ Len(account.hidden_liabilities) = 1
    /\ account.hidden_assets[1][2] = account.hidden_liabilities[1][2]

\* C8: for an account whose weighted liabilities exceed its weighted assets
\* (every code having a rate), prove_solvency_and_store returns Ok and
\* leaves account.proof Some, and the verify_solvency that follows fails
\* with SolvencyVerificationError.
C8_InsolventVerifyFails ==
    /\ (ret.op = "prove" /\ AllRated(account, CallRates)
            /\ ~Solvent(account, CallRates))
           => (ret.result = Ok /\ Present(account))
    /\ (ret.op = "verify" /\ ret.fresh /\ AllRated(account, CallRates)
            /\ ~Solvent(account, CallRates))
           => ret.result = VerifyFailed

\* A verify right after a prove rejected an account whose hidden liability
\* outweighs its asset.
C8_Witness ==
    /\ ret.op = "verify" /\ ret.fresh /\ ret.result = VerifyFailed
    /\ AllRated(account, CallRates) /\ ~Solvent(account, CallRates)
    /\ Len(account.hidden_liabilities) = 1
    /\ Len(account.public_assets) + Len(account.hidden_assets) = 1

\* C9 as stated: if an entry's code has no rate in the audit's table, prove
\* fails with MissingConversionRate and, given a present well-formed proof,
\* verify fails with MissingConversionRate.
C9_Original ==
    /\ (ret.op = "prove" /\ ~AllRated(account, CallRates))
           => IsMissingConversionRate(ret.result)
    /\ (ret.op = "verify" /\ Present(account) /\ from_bytes(account.proof[2]).ok
            /\ ~AllRated(account, CallRates))
           => IsMissingConversionRate(ret.result)

\* C9, amended: if an entry's code has no rate in the audit's table, prove
\* fails with the engine's SolvencyProveError (the ProveFailed kind) and
\* stores nothing, and, given a present well-formed proof, verify fails with
\* the engine's SolvencyVerificationError (the VerifyFailed kind); neither
\* succeeds.
C9_MissingRateFails ==
    /\ (ret.op = "prove" /\ ~AllRated(account, CallRates))
           => (ret.result = ProveFailed /\ account = pre)
    /\ (ret.op = "verify" /\ Present(account) /\ from_bytes(account.proof[2]).ok
            /\ ~AllRated(account, CallRates))
           => ret.result = VerifyFailed

\* An audit without a rate for the code of the account's only entry, a
\* hidden one, verified the account, which carries a proof.
C9_Witness ==
    /\ ret.op = "verify" /\ Present(account)
    /\ ~AllRated(account, CallRates)
    /\ NumEntries(account) = 1
    /\ Len(account.hidden_assets) + Len(account.hidden_liabilities) = 1

\* C10: verify on an account whose proof is None fails with MissingProof
\* (InputsError), whether the account is fresh or holds entries, whatever
\* the rate table holds.
C10_VerifyWithoutProof ==
    (ret.op = "verify" /\ ~Present(account)) => ret.result = MissingProof

\* An audit without a rate for a public entry's code verified an account
\* that holds entries and no proof.
C10_Witness ==
    /\ ret.op = "verify" /\ ~Present(account)
    /\ Len(account.public_assets) + Len(account.public_liabilities) >= 1
    /\ ~AllRated(account, CallRates)

\* C11 as stated: after a successful prove and a successful verify, the
\* verify that follows one further successful update (no prove in between)
\* fails with MissingProof; a new successful prove on the still-solvent
\* account then makes the verify after it succeed.
C11_Original ==
    /\ stage = 4 => ret.result = MissingProof
    /\ (stage = 6 /\ AllRated(account, CallRates) /\ Solvent(account, CallRates))
           => ret.result = Ok

\* C11, amended: the verify after the further update fails with MissingProof;
\* the verify after the new prove succeeds when the account is still solvent
\* and the entry the update added opens its stored commitment pair (as the
\* earlier entries, which a verify accepted, do).
C11_UpdateThenVerify ==
    /\ stage = 4 => ret.result = MissingProof
    /\ (stage = 6 /\ AllRated(account, CallRates) /\ Solvent(account, CallRates)
            /\ Opens(account))
           => ret.result = Ok

\* prove, verify, update of a hidden asset, verify, prove, verify: the last
\* verify accepted the account of two entries.
C11_Witness ==
    /\ stage = 6 /\ ret.op = "verify" /\ ret.result = Ok
    /\ NumEntries(account) = 2
    /\ Len(account.hidden_assets) >= 1

\* C12: verify changes neither the account (its eight sequences, its proof
\* slot) nor the audit's rate table, whether it succeeds or fails; and a
\* verify called right after a verify, on the same audit, returns the result
\* the first returned.
C12_VerifyFrame ==
    [][ret'.op = "verify" =>
          /\ account' = account
          /\ conversion_rates' = conversion_rates
          /\ (ret.op = "verify" /\ ret.audit = ret'.audit)
                 => ret'.result = ret.result]_vars

\* A second verify in a row accepted an account that holds an entry and a
\* valid proof.
C12_Witness ==
    /\ stage = 7 /\ ret.op = "verify" /\ ret.result = Ok
    /\ Present(account) /\ account = pre
    /\ NumEntries(account) >= 1

\* The accounts that differ from `a` in their hidden plaintext sequences and
\* blind sequences alone.
SameToVerifier(a) ==
    {[a EXCEPT !.hidden_assets = ha, !.hidden_assets_blinds = hab,
               !.hidden_liabilities = hl, !.hidden_liabilities_blinds = hlb] :
        ha \in OtherSequences, hab \in OtherSequences,
        hl \in OtherSequences, hlb \in OtherSequences}

\* C13: the result of verify depends on the account's hidden commitments,
\* public entries and proof bytes and on the rate table alone: the verify
\* just called returns the same on every account that differs from this one
\* in its hidden plaintext sequences or blind sequences only.
C13_VerifyReadsNoPlaintext ==
    ret.op = "verify" =>
        \A other \in SameToVerifier(account) :
            audit_verify_solvency(ret.audit, other) = ret.result

\* A verify accepted an account with a hidden asset and a hidden liability.
C13_Witness ==
    /\ ret.op = "verify" /\ ret.result = Ok
    /\ Len(account.hidden_assets) = 1 /\ Len(account.hidden_liabilities) = 1
    /\ account \notin SameToVerifier(account)

\* The error kinds of update, as the code returns them.
InputMismatch == InputsError
MissingBlinds == InputsError

\* The six hidden sequences of an account, the two public ones.
Hidden6(a) ==
    <<a.hidden_assets, a.hidden_assets_blinds, a.hidden_assets_commitments,
      a.hidden_liabilities, a.hidden_liabilities_blinds,
      a.hidden_liabilities_commitments>>
Public2(a) == <<a.public_assets, a.public_liabilities>>

\* C14: for every call of update on the account whose ledger query resolves
\* to a plaintext amount: if the fetched amount differs from the claimed
\* amount, update fails with InputMismatch (InputsError); otherwise it
\* returns Ok, having appended (Scalar(amount), code scalar) to public_assets
\* for an Asset and to public_liabilities for a Liability, and to no other
\* sequence.
C14_PlaintextUpdate ==
    \A amount_type \in AmountTypes, amount \in Amounts, code \in Codes,
       blinds \in BlindsArgs, utxo \in Utxos :
        LET fetched == query_utxo_and_get_amount(utxo)
            r == update(account, amount_type, amount, code, blinds, utxo)
        IN fetched.tag = "NonConfidential" =>
             IF fetched.amount # amount
             THEN r.result = InputMismatch
             ELSE /\ r.result = Ok
                  /\ Hidden6(r.self) = Hidden6(account)
                  /\ amount_type = "Asset" =>
                        /\ r.self.public_assets =
                               Append(account.public_assets, <<Scalar(amount), code>>)
                        /\ r.self.public_liabilities = account.public_liabilities
                  /\ amount_type = "Liability" =>
                        /\ r.self.public_liabilities =
                               Append(account.public_liabilities,
                                      <<Scalar(amount), code>>)
                        /\ r.self.public_assets = account.public_assets

\* An update appended the plaintext liability (1, code 2) to an account that
\* held a hidden entry.
C14_Witness ==
    /\ Succeeded("update")
    /\ account.public_liabilities = Append(pre.public_liabilities, <<1, 2>>)
    /\ Len(pre.hidden_assets) + Len(pre.hidden_liabilities) = 1
    /\ \E blinds \in BlindsArgs :
           update(pre, "Liability", 1, 2, blinds, 1) = [self |-> account, result |-> Ok]

\* C15: for every call of update on the account whose ledger query resolves
\* to a confidential amount, with well-formed or malformed commitments,
\* and that is given no blinds: update fails with MissingBlinds
\* (InputsError) and leaves the eight sequences as they were.
C15_MissingBlinds ==
    \A amount_type \in AmountTypes, amount \in Amounts, code \in Codes,
       utxo \in Utxos :
        LET fetched == query_utxo_and_get_amount(utxo)
            r == update(account, amount_type, amount, code, NoBlinds, utxo)
        IN fetched.tag = "Confidential" =>
             /\ r.result = MissingBlinds
             /\ Sequences8(r.self) = Sequences8(account)

\* An update of a confidential output without blinds failed on an account
\* that holds an entry.
C15_Witness ==
    /\ ret.op = "update" /\ ret.result = MissingBlinds
    /\ NumEntries(account) >= 1
    /\ update(pre, "Asset", 1, 1, NoBlinds, 2) = [self |-> account, result |-> ret.result]

\* C16: every successful update on a confidential outcome appends one
\* element to each of the three hidden sequences of its kind: the entry
\* (Scalar(amount), code scalar), the blind pair (low + 2^32 * high,
\* code_blind) and the commitment pair (C_low + 2^32 * C_high,
\* Commit(code scalar, code_blind)), the three at the same index; it appends
\* nothing to a public sequence or to the sequences of the other kind.
C16_ConfidentialUpdate ==
    \A amount_type \in AmountTypes, amount \in Amounts, code \in Codes,
       blinds \in BlindsArgs, utxo \in Utxos :
        LET fetched == query_utxo_and_get_amount(utxo)
            r == update(account, amount_type, amount, code, blinds, utxo)
            entry == <<Scalar(amount), code>>
            pair == <<Scalar(blinds[2] + POW_2_32 * blinds[3]), blinds[4]>>
            commitment ==
                <<Compress(PointAdd(get_decompressed_commitment(fetched.low).point,
                                    PointMul(get_decompressed_commitment(fetched.high).point,
                                             POW_2_32))),
                  Compress(Commit(code, blinds[4]))>>
        IN (fetched.tag = "Confidential" /\ r.result = Ok) =>
             /\ Public2(r.self) = Public2(account)
             /\ amount_type = "Asset" =>
                   /\ r.self.hidden_assets = Append(account.hidden_assets, entry)
                   /\ r.self.hidden_assets_blinds =
                          Append(account.hidden_assets_blinds, pair)
                   /\ r.self.hidden_assets_commitments =
                          Append(account.hidden_assets_commitments, commitment)
                   /\ Len(r.self.hidden_assets) = Len(r.self.hidden_assets_blinds)
                   /\ Len(r.self.hidden_assets) = Len(r.self.hidden_assets_commitments)
                   /\ r.self.hidden_liabilities = account.hidden_liabilities
                   /\ r.self.hidden_liabilities_blinds = account.hidden_liabilities_blinds
                   /\ r.self.hidden_liabilities_commitments =
                          account.hidden_liabilities_commitments
             /\ amount_type = "Liability" =>
                   /\ r.self.hidden_liabilities =
                          Append(account.hidden_liabilities, entry)
                   /\ r.self.hidden_liabilities_blinds =
                          Append(account.hidden_liabilities_blinds, pair)
                   /\ r.self.hidden_liabilities_commitments =
                          Append(account.hidden_liabilities_commitments, commitment)
                   /\ Len(r.self.hidden_liabilities) =
                          Len(r.self.hidden_liabilities_blinds)
                   /\ Len(r.self.hidden_liabilities) =
                          Len(r.self.hidden_liabilities_commitments)
                   /\ r.self.hidden_assets = account.hidden_assets
                   /\ r.self.hidden_assets_blinds = account.hidden_assets_blinds
                   /\ r.self.hidden_assets_commitments =
                          account.hidden_assets_commitments

\* An update appended a hidden liability to an account that held a hidden
\* asset.
C16_Witness ==
    /\ Succeeded("update")
    /\ Len(pre.hidden_assets) = 1 /\ Len(pre.hidden_liabilities) = 0
    /\ Len(account.hidden_liabilities) = 1
    /\ Len(account.hidden_liabilities_blinds) = 1
    /\ Len(account.hidden_liabilities_commitments) = 1

\* The sequence `after` is `before` with one entry appended.
Pushed(before, after) ==
    Len(after) = Len(before) + 1 /\ SubSeq(after, 1, Len(before)) = before

\* The sequences of the four groups: public assets, hidden assets, public
\* liabilities, hidden liabilities.
Group(a, g) ==
    CASE g = 1 -> <<a.public_assets>>
      [] g = 2 -> <<a.hidden_assets, a.hidden_assets_blinds,
                    a.hidden_assets_commitments>>
      [] g = 3 -> <<a.public_liabilities>>
      [] OTHER -> <<a.hidden_liabilities, a.hidden_liabilities_blinds,
                    a.hidden_liabilities_commitments>>

\* C17: a step that is a successful update appends one entry to the
\* sequences of one of the four groups, every entry held keeping its value
\* and index, and leaves the three other groups as they were; every other
\* step leaves the eight sequences as they were.  So the four value
\* sequences hold as many entries as there were successful updates.
C17_OneGroupOneEntry ==
    [][IF ret'.op = "update" /\ ret'.result = Ok
       THEN /\ \E g \in 1 .. 4 :
                  /\ \A i \in 1 .. Len(Group(account, g)) :
                         Pushed(Group(account, g)[i], Group(account', g)[i])
                  /\ \A h \in (1 .. 4) \ {g} : Group(account', h) = Group(account, h)
            /\ NumEntries(account') = NumEntries(account) + 1
       ELSE Sequences8(account') = Sequences8(account)]_vars

\* The second successful update added a hidden liability to an account that
\* held a public asset.
C17_Witness ==
    /\ Succeeded("update")
    /\ NumEntries(account) = 2 /\ NumEntries(pre) = 1
    /\ Len(pre.public_assets) = 1 /\ Len(account.hidden_liabilities) = 1

\* x * 2^32 in the scalar field, by two multiplications by 2^16.
TimesPow2_32(x) == (((x * 65536) % ScalarOrder) * 65536) % ScalarOrder

\* The last element of a sequence.
Last(seq) == seq[Len(seq)]

\* C18: get_amount_and_code_blinds returns a list as long as its input whose
\* i-th pair is (low + 2^32 * high in the scalar field, code_blind) of the
\* i-th triple, and that pair is the blind pair update stores when it is
\* given the triple.
C18_CombinedBlinds ==
    \A blinds \in BlindLists :
        LET out == get_amount_and_code_blinds(blinds)
        IN /\ Len(out) = Len(blinds)
           /\ \A i \in 1 .. Len(blinds) :
                 /\ out[i] = <<(blinds[i][1] + TimesPow2_32(blinds[i][2])) % ScalarOrder,
                               blinds[i][3]>>
                 /\ \A amount_type \in AmountTypes :
                       LET r == update(account, amount_type, 1, 1,
                                       SomeBlinds(blinds[i][1], blinds[i][2],
                                                  blinds[i][3]), 2)
                       IN /\ r.result = Ok
                          /\ out[i] = Last(IF amount_type = "Asset"
                                           THEN r.self.hidden_assets_blinds
                                           ELSE r.self.hidden_liabilities_blinds)

\* An update stored, after a blind pair held, the pair that
\* get_amount_and_code_blinds gives for the triple (1, 1, 1).
C18_Witness ==
    /\ Succeeded("update")
    /\ Len(pre.hidden_assets_blinds) = 1
    /\ account.hidden_assets_blinds =
           pre.hidden_assets_blinds \o get_amount_and_code_blinds(<<<<1, 1, 1>>>>)

\* C19: for a confidential output whose limb commitments are
\* C_low = Commit(low, low_blind) and C_high = Commit(high, high_blind), an
\* update given amount = low + 2^32 * high and those blinds stores a
\* commitment pair that opens to the stored entry under the stored blind
\* pair: the amount commitment is
\* Commit(amount, low_blind + 2^32 * high_blind) and the code commitment is
\* Commit(code scalar, code_blind).  (The amount is passed as an integer
\* congruent to low + 2^32 * high in the scalar field.)
C19_StoredCommitmentOpens ==
    \A amount_type \in AmountTypes, code \in Codes, low \in LowLimbs,
       high \in HighLimbs, t \in BlindTriples :
        LET r == UpdateHidden(account, amount_type, low + POW_2_32 * high, code,
                              SomeBlinds(t[1], t[2], t[3]),
                              Compress(Commit(low, t[1])), Compress(Commit(high, t[2])))
            entry == Last(IF amount_type = "Asset" THEN r.self.hidden_assets
                          ELSE r.self.hidden_liabilities)
            pair == Last(IF amount_type = "Asset" THEN r.self.hidden_assets_blinds
                         ELSE r.self.hidden_liabilities_blinds)
            commitment == Last(IF amount_type = "Asset"
                               THEN r.self.hidden_assets_commitments
                               ELSE r.self.hidden_liabilities_commitments)
        IN /\ r.result = Ok
           /\ commitment = <<Compress(Commit(entry[1], pair[1])),
                              Compress(Commit(entry[2], pair[2]))>>
           /\ commitment[1] = Compress(Commit(low + TimesPow2_32(high),
                                               t[1] + TimesPow2_32(t[2])))
           /\ commitment[2] = Compress(Commit(code, t[3]))

\* An update given the amount and the blinds of the ledger's confidential
\* output stored a second hidden entry, and every stored commitment pair
\* opens.
C19_Witness ==
    /\ Succeeded("update")
    /\ Len(pre.hidden_assets) + Len(pre.hidden_liabilities) = 1
    /\ Len(account.hidden_assets) + Len(account.hidden_liabilities) = 2
    /\ Opens(account)
    /\ \E amount_type \in AmountTypes, code \in Codes :
           update(pre, amount_type, 1, code, SomeBlinds(1, 1, 1), 2).self = account

\* C20: a step that is a successful prove sets account.proof to Some of the
\* serialized proof made over the account and the audit's rates, whatever
\* the slot held, and leaves the eight sequences and the audit's rate table
\* as they were.
C20_ProveFrame ==
    [][(ret'.op = "prove" /\ ret'.result = Ok) =>
          /\ Sequences8(account') = Sequences8(account)
          /\ conversion_rates' = conversion_rates
          /\ account'.proof =
                 Some(to_bytes(prove_solvency(
                          account.hidden_assets, account.hidden_assets_blinds,
                          account.public_assets,
                          account.hidden_liabilities, account.hidden_liabilities_blinds,
                          account.public_liabilities, BuildRates(ret'.audit)).proof))]_vars

\* A successful prove replaced the proof an account of two entries carried
\* by another proof.
C20_Witness ==
    /\ Succeeded("prove")
    /\ Present(pre) /\ Present(account) /\ account.proof # pre.proof
    /\ Sequences8(account) = Sequences8(pre)
    /\ NumEntries(account) = 2

\* The positions of the first and of the last entry of a rate table for a
\* code that has one.
FirstEntry(table, code) ==
    CHOOSE i \in 1 .. Len(table) :
        table[i][1] = code /\ \A j \in 1 .. (i - 1) : table[j][1] # code
LastEntry(table, code) ==
    CHOOSE i \in 1 .. Len(table) :
        table[i][1] = code /\ \A j \in (i + 1) .. Len(table) : table[j][1] # code

\* The codes of a rate table, each once, in the order they first appear.
KeysOf(table) ==
    SelectSeq([i \in 1 .. Len(table) |->
                  IF FirstEntry(table, table[i][1]) = i THEN table[i][1] ELSE 0],
              LAMBDA c : c # 0)

\* The rates a table gives its codes when the first entry of a code counts,
\* when the last one counts.
ResolvedFirst(table) ==
    [k \in 1 .. Len(KeysOf(table)) |->
        <<KeysOf(table)[k], table[FirstEntry(table, KeysOf(table)[k])][2]>>]
ResolvedLast(table) ==
    [k \in 1 .. Len(KeysOf(table)) |->
        <<KeysOf(table)[k], table[LastEntry(table, KeysOf(table)[k])][2]>>]

\* The last call, a prove or a verify, went as it goes under these rates: a
\* successful prove stored the proof made under them, a verify of a
\* well-formed proof returned what the engine returns under them.
WentUnder(rates) ==
    /\ Succeeded("prove") =>
          account.proof =
              Some(to_bytes(prove_solvency(
                       pre.hidden_assets, pre.hidden_assets_blinds, pre.public_assets,
                       pre.hidden_liabilities, pre.hidden_liabilities_blinds,
                       pre.public_liabilities, rates).proof))
    /\ (ret.op = "verify" /\ Present(account) /\ from_bytes(account.proof[2]).ok) =>
          ret.result =
              IF verify_solvency(account.hidden_assets_commitments, account.public_assets,
                                 account.hidden_liabilities_commitments,
                                 account.public_liabilities, rates,
                                 from_bytes(account.proof[2]).proof).ok
              THEN Ok ELSE VerifyFailed

\* C21 as stated: when the rate table has more than one entry for a code,
\* prove and verify resolve the code to the rate of its first entry in table
\* order.
C21_Original == WentUnder(ResolvedFirst(ret.audit))

\* C21, amended: when the rate table has more than one entry for a code,
\* prove and verify resolve the code to the rate of its last entry in table
\* order (the code keeps the place of its first entry among the codes).
C21_LastRateWins == WentUnder(ResolvedLast(ret.audit))

\* Under a table with the rates 1 then 2 for code 2, a verify right after a
\* prove rejected an account whose liability of code 2 outweighs its asset
\* at rate 2 but not at rate 1.
C21_Witness ==
    /\ ret.op = "verify" /\ ret.fresh /\ ret.result = VerifyFailed
    /\ \E i \in 1 .. Len(ret.audit) : ret.audit[i][1] = 2
    /\ FirstEntry(ret.audit, 2) # LastEntry(ret.audit, 2)
    /\ Opens(account)
    /\ ~Solvent(account, ResolvedLast(ret.audit))
    /\ Solvent(account, ResolvedFirst(ret.audit))

\* The results of the updates of the account that fail on a plaintext
\* amount mismatch, of those that fail for absent blinds, and of the
\* verifies that fail for an absent proof.
MismatchResults ==
    {update(account, amount_type, claim[1], code, blinds, claim[2]).result :
        amount_type \in AmountTypes, code \in Codes, blinds \in BlindsArgs,
        claim \in {c \in Amounts \X Utxos :
                      /\ query_utxo_and_get_amount(c[2]).tag = "NonConfidential"
                      /\ query_utxo_and_get_amount(c[2]).amount # c[1]}}
AbsentBlindsResults ==
    {update(account, amount_type, amount, code, NoBlinds, utxo).result :
        amount_type \in AmountTypes, code \in Codes, amount \in Amounts,
        utxo \in {u \in Utxos : query_utxo_and_get_amount(u).tag = "Confidential"}}
AbsentProofResults ==
    IF Present(account) THEN {}
    ELSE {audit_verify_solvency(table, account) : table \in AuditTables}

\* C22 as stated: an update that fails on a plaintext amount mismatch, an
\* update that fails for absent blinds and a verify that fails for an absent
\* proof each return a different error kind.
C22_Original ==
    \A r1 \in MismatchResults, r2 \in AbsentBlindsResults :
        /\ r1.kind # r2.kind
        /\ \A r3 \in AbsentProofResults : r3.kind # r1.kind /\ r3.kind # r2.kind

\* C22, amended: an update that fails on a plaintext amount mismatch, an
\* update that fails for absent blinds and a verify that fails for an absent
\* proof return one and the same error kind, InputsError.
C22_OneKind ==
    \A r \in MismatchResults \cup AbsentBlindsResults \cup AbsentProofResults :
        r.kind = "InputsError"

\* A verify failed for the absent proof of an account that holds an entry
\* and on which an update fails for a mismatch and for absent blinds.
C22_Witness ==
    /\ ret.op = "verify" /\ ~Present(account)
    /\ ret.result \in AbsentProofResults
    /\ MismatchResults # {} /\ AbsentBlindsResults # {}
    /\ NumEntries(account) = 1

\* The accounts that differ from `a` in their hidden plaintext sequences
\* alone.
SameButPlaintext(a) ==
    {[a EXCEPT !.hidden_assets = ha, !.hidden_liabilities = hl] :
        ha \in OtherSequences \cup {a.hidden_assets},
        hl \in OtherSequences \cup {a.hidden_liabilities}}

\* C23 as stated: the serialized account does not depend on the hidden
\* plaintext entries: the accounts that differ from it in hidden_assets or
\* hidden_liabilities alone serialize to the same output.
C23_Original ==
    \A other \in SameButPlaintext(account) : serialize(other) = serialize(account)

WellFormed(a) == Present(a) /\ from_bytes(a.proof[2]).ok

\* C25 as stated: an absent proof yields MissingProof even if the rate
\* table is incomplete; a present, malformed proof yields DeserializeProof
\* before any rate is resolved; with a present, well-formed proof a code
\* without a rate yields MissingConversionRate, and else the engine decides
\* (VerifyFailed or Ok).
C25_Original ==
    ret.op = "verify" =>
        /\ ~Present(account) => ret.result = MissingProof
        /\ (Present(account) /\ ~WellFormed(account)) =>
               ret.result = DeserializationError
        /\ (WellFormed(account) /\ ~AllRated(account, CallRates)) =>
               IsMissingConversionRate(ret.result)
        /\ (WellFormed(account) /\ AllRated(account, CallRates)) =>
               ret.result \in {Ok, VerifyFailed}

\* C25, amended: the same order, but with a present, well-formed proof a
\* code without a rate yields the engine's SolvencyVerificationError
\* (VerifyFailed): the rates are built from the table without a check, and
\* there is no MissingConversionRate kind.
C25_VerifyOrder ==
    ret.op = "verify" =>
        /\ ~Present(account) => ret.result = MissingProof
        /\ (Present(account) /\ ~WellFormed(account)) =>
               ret.result = DeserializationError
        /\ (WellFormed(account) /\ ~AllRated(account, CallRates)) =>
               ret.result = VerifyFailed
        /\ (WellFormed(account) /\ AllRated(account, CallRates)) =>
               ret.result \in {Ok, VerifyFailed}

\* An audit without a rate for the account's public entry verified the
\* account, whose proof bytes are malformed.
C25_Witness ==
    /\ ret.op = "verify" /\ ret.result = DeserializationError
    /\ Present(account) /\ ~WellFormed(account)
    /\ Len(account.public_assets) + Len(account.public_liabilities) >= 1
    /\ ~AllRated(account, CallRates)

\* The ledger outputs with confidential amounts of which a limb commitment
\* does not decompress.
MalformedUtxos ==
    {u \in Utxos :
        /\ query_utxo_and_get_amount(u).tag = "Confidential"
        /\ \/ ~get_decompressed_commitment(query_utxo_and_get_amount(u).low).ok
           \/ ~get_decompressed_commitment(query_utxo_and_get_amount(u).high).ok}

\* The error kind of a commitment that does not decompress.
DecompressElement == ZeiError("DecompressElementError")

\* C26: for every update of the account on a confidential output whose
\* C_low or C_high does not decompress: without blinds it fails with
\* MissingBlinds (InputsError), with blinds it fails with DecompressElement;
\* either way no sequence is modified and the proof slot is left as it was.
C26_BlindsThenDecompress ==
    \A amount_type \in AmountTypes, amount \in Amounts, code \in Codes,
       blinds \in BlindsArgs \cup {SomeBlinds(t[1], t[2], t[3]) : t \in BlindTriples},
       utxo \in MalformedUtxos :
        LET r == update(account, amount_type, amount, code, blinds, utxo)
        IN /\ r.result = IF blinds = NoBlinds THEN MissingBlinds ELSE DecompressElement
           /\ r.self = account

\* An update with blinds failed on the malformed high limb commitment of an
\* output and left the proof the account carried.
C26_Witness ==
    /\ ret.op = "update" /\ ret.result = DecompressElement
    /\ Present(account) /\ account = pre
    /\ NumEntries(account) >= 1
    /\ 4 \in MalformedUtxos
    /\ update(pre, "Liability", 1, 1, SomeBlinds(1, 1, 1), 4).result = ret.result

\* C27: for every update of the account on an output that resolves to a
\* plaintext amount, the blinds have no effect: with None and with
\* Some(any triple) the result and the account left are the same.
C27_BlindsUnused ==
    \A amount_type \in AmountTypes, amount \in Amounts, code \in Codes,
       t \in BlindTriples,
       utxo \in {u \in Utxos : query_utxo_and_get_amount(u).tag = "NonConfidential"} :
        update(account, amount_type, amount, code, NoBlinds, utxo)
          = update(account, amount_type, amount, code,
                   SomeBlinds(t[1], t[2], t[3]), utxo)

\* An update appended a second plaintext asset, the same with and without
\* blinds.
C27_Witness ==
    /\ Succeeded("update")
    /\ Len(pre.public_assets) = 1 /\ Len(account.public_assets) = 2
    /\ update(pre, "Asset", 1, 2, NoBlinds, 1).self = account
    /\ update(pre, "Asset", 1, 2, SomeBlinds(1, 1, 1), 1).self = account

\* C28: a step that is a set_rate succeeds and appends one entry
\* (code scalar, Scalar(rate)) at the end of the rate table, also when the
\* code has an entry, every earlier entry keeping its value and position;
\* every other step leaves the table as it was.  So after n calls the table
\* has n entries in call order.
C28_SetRateAppends ==
    [][IF ret'.op = "set_rate"
       THEN /\ ret'.result = Ok
            /\ Len(conversion_rates') = Len(conversion_rates) + 1
            /\ SubSeq(conversion_rates', 1, Len(conversion_rates)) = conversion_rates
            /\ \E arg \in RateArgs :
                   Last(conversion_rates') = <<arg[1], Scalar(arg[2])>>
       ELSE conversion_rates' = conversion_rates]_vars

\* A set_rate added a second rate for a code the table held.
C28_Witness ==
    /\ ret.op = "set_rate"
    /\ Len(conversion_rates) = 2
    /\ conversion_rates[1][1] = conversion_rates[2][1]
    /\ conversion_rates[1][2] # conversion_rates[2][2]

\* C30: a failed update (query error, amount mismatch, missing blinds,
\* decompression failure) leaves the proof slot as it was, and a verify
\* after it, on any audit, returns what it returned before it.
C30_FailedUpdateKeepsProof ==
    Failed("update") =>
        /\ account.proof = pre.proof
        /\ \A table \in AuditTables \cup {conversion_rates} :
               audit_verify_solvency(table, account) = audit_verify_solvency(table, pre)

\* An update failed on an account that carries a proof an audit accepts.
C30_Witness ==
    /\ Failed("update")
    /\ Present(pre) /\ account.proof = pre.proof
    /\ NumEntries(account) >= 1
    /\ \E table \in AuditTables : audit_verify_solvency(table, account) = Ok

\* No caller writes the account: no update and no prove is in flight.
NoWriter == \A t \in Callers : lock[t] # "write"

\* A verify is in flight.
Verifying == \E t \in Callers : calls[t].pc = "verify"

\* The account as the invariants of the proof slot and of the hidden
\* lengths want it.
Consistent ==
    /\ C3_HiddenLengths
    /\ Present(account) => ProofOverCurrentSequences

NoncedContexts == {ctx} \cup {inc_nonce(ctx, who).ctx : who \in Addresses}

\* The balances, and the balances with the reserved balances, of these
\* addresses added up.
RECURSIVE SumOfBalances(_, _)
SumOfBalances(c, whos) ==
    IF whos = {} THEN 0
    ELSE LET who == CHOOSE w \in whos : TRUE
         IN balance(c, who) + SumOfBalances(c, whos \ {who})
RECURSIVE SumOfHoldings(_, _)
SumOfHoldings(c, whos) ==
    IF whos = {} THEN 0
    ELSE LET who == CHOOSE w \in whos : TRUE
         IN balance(c, who) + reserved_balance(c, who)
            + SumOfHoldings(c, whos \ {who})

\* C31: a transfer of a non-zero amount between distinct addresses that
\* returns Ok takes exactly the amount from the sender's balance and adds
\* exactly the amount to the destination's, which is a default account with
\* that balance when none was stored; the sum of all balances, every other
\* account, every reserved balance, every nonce and the total issuance are
\* as before.
C31_Transfer ==
    \A c \in NoncedContexts, sender \in Addresses, dest \in Addresses, amount \in U256 :
        LET r == transfer(c, sender, dest, amount)
        IN (r.result = Ok /\ amount # 0 /\ sender # dest) =>
              /\ balance(r.ctx, sender) = balance(c, sender) - amount
              /\ balance(r.ctx, dest) = balance(c, dest) + amount
              /\ account_of(c, dest) = None =>
                    account_of(r.ctx, dest)
                        = Some([DefaultSmartAccount EXCEPT !.balance = amount])
              /\ SumOfBalances(r.ctx, Addresses) = SumOfBalances(c, Addresses)
              /\ \A who \in Addresses \ {sender, dest} :
                    account_of(r.ctx, who) = account_of(c, who)
              /\ \A who \in Addresses :
                    /\ reserved_balance(r.ctx, who) = reserved_balance(c, who)
                    /\ nonce(r.ctx, who) = nonce(c, who)
              /\ r.ctx.TotalIssuance = c.TotalIssuance

\* A transfer moved a balance on a chain where another call had put a
\* reserved balance aside and an address has no account.
C31_Witness ==
    /\ call = [op |-> "transfer", result |-> Ok, wrote |-> TRUE]
    /\ \E who \in Addresses : reserved_balance(ctx, who) > 0
    /\ \E who \in Addresses : account_of(ctx, who) = None

\* C32 as stated: a mint or a burn that returns an error leaves the
\* target's stored balance and the stored total issuance as they were.
C32_Original ==
    \A target \in Addresses, amount \in U256 :
        /\ mint(ctx, target, amount).result # Ok =>
              /\ balance(mint(ctx, target, amount).ctx, target) = balance(ctx, target)
              /\ mint(ctx, target, amount).ctx.TotalIssuance = ctx.TotalIssuance
        /\ burn(ctx, target, amount).result # Ok =>
              /\ balance(burn(ctx, target, amount).ctx, target) = balance(ctx, target)
              /\ burn(ctx, target, amount).ctx.TotalIssuance = ctx.TotalIssuance

\* The total issuance less what all accounts hold, free and reserved.
Unbacked(c) == total_issuance(c) - SumOfHoldings(c, Addresses)

\* C33: every call that returns Ok leaves the total issuance less the sum
\* of balance + reserved over all accounts as it was: mint raises both by
\* the amount, burn lowers both by the amount, and transfer, withdraw and
\* refund change neither.
C33_IssuanceBacking ==
    \A who \in Addresses, amount \in U256 :
        LET minted == mint(ctx, who, amount)
            burned == burn(ctx, who, amount)
            issued == total_issuance(ctx)
            held == SumOfHoldings(ctx, Addresses)
        IN /\ minted.result = Ok =>
                 /\ total_issuance(minted.ctx) = issued + amount
                 /\ SumOfHoldings(minted.ctx, Addresses) = held + amount
                 /\ Unbacked(minted.ctx) = Unbacked(ctx)
           /\ burned.result = Ok =>
                 /\ total_issuance(burned.ctx) = issued - amount
                 /\ SumOfHoldings(burned.ctx, Addresses) = held - amount
                 /\ Unbacked(burned.ctx) = Unbacked(ctx)
           /\ \A r \in {withdraw(ctx, who, amount), refund(ctx, who, amount)}
                      \cup {transfer(ctx, who, dest, amount) : dest \in Addresses} :
                 r.result = Ok =>
                     /\ total_issuance(r.ctx) = issued
                     /\ SumOfHoldings(r.ctx, Addresses) = held

\* A burn took from an account and from the issuance on a chain whose
\* accounts hold more than was issued.
C33_Witness ==
    /\ call = [op |-> "burn", result |-> Ok, wrote |-> TRUE]
    /\ Unbacked(ctx) < 0

\* C34: a transfer of a non-zero amount between distinct addresses whose
\* sender has no account, or less than the amount, or whose destination
\* would go over U256::MAX, returns an error and leaves the state as it
\* was; a transfer of zero, or from an address to itself, returns Ok and
\* leaves the state as it was, whether the sender has an account or not.
C34_FailedTransfer ==
    \A sender \in Addresses, dest \in Addresses, amount \in U256 :
        LET r == transfer(ctx, sender, dest, amount)
        IN /\ (amount = 0 \/ sender = dest) => r = [ctx |-> ctx, result |-> Ok]
           /\ (/\ amount # 0
               /\ sender # dest
               /\ \/ account_of(ctx, sender) = None
                  \/ balance(ctx, sender) < amount
                  \/ balance(ctx, dest) + amount > U256Max)
                  => r.result # Ok /\ r.ctx = ctx

\* A transfer was refused for the overflow of the destination; a sender
\* with no account may send zero.
C34_Witness ==
    /\ call = [op |-> "transfer", result |-> RucError("balance overflow"),
               wrote |-> FALSE]
    /\ \E sender \in Addresses :
          /\ account_of(ctx, sender) = None
          /\ \A dest \in Addresses : transfer(ctx, sender, dest, 0).result = Ok

\* What withdraw and refund do with a value that the claim C35 is about,
\* for the values in `values`.
WithdrawRefund(values) ==
    \A c \in NoncedContexts, who \in Addresses, value \in values :
        LET w == withdraw(c, who, value)
            f == refund(c, who, value)
        IN /\ w.result = Ok =>
                 /\ balance(w.ctx, who) = balance(c, who) - value
                 /\ reserved_balance(w.ctx, who) = reserved_balance(c, who) + value
                 /\ refund(w.ctx, who, value).result = Ok
                 /\ account_of(refund(w.ctx, who, value).ctx, who) = account_of(c, who)
           /\ f.result = Ok =>
                 /\ reserved_balance(f.ctx, who) = reserved_balance(c, who) - value
                 /\ balance(f.ctx, who) = balance(c, who) + value
           /\ (account_of(c, who) = None \/ balance(c, who) < value)
                 => w.result # Ok
           /\ (account_of(c, who) = None \/ reserved_balance(c, who) < value)
                 => f.result # Ok
           /\ w.result # Ok => w.ctx = c
           /\ f.result # Ok => f.ctx = c

\* C35 as stated: for every value, zero among them.
C35_Original == WithdrawRefund(U256)

\* C35: a withdraw of a non-zero value that returns Ok moves exactly the
\* value from the balance to the reserved balance of the account, a refund
\* moves it back, so balance + reserved is the same after either; each
\* returns an error when the account does not exist or the side it takes
\* from is below the value, and an error leaves the state as it was; and
\* refund(v) after a successful withdraw(v) returns Ok and gives the account
\* back as it was. With the value zero both return Ok and leave the state
\* as it was, whether the account exists or not.
C35_WithdrawRefund ==
    /\ WithdrawRefund(U256 \ {0})
    /\ \A c \in NoncedContexts, who \in Addresses :
          /\ withdraw(c, who, 0) = [ctx |-> c, result |-> Ok]
          /\ refund(c, who, 0) = [ctx |-> c, result |-> Ok]

\* A withdraw put a balance aside while an address has no account.
C35_Witness ==
    /\ call = [op |-> "withdraw", result |-> Ok, wrote |-> TRUE]
    /\ \E who \in Addresses : reserved_balance(ctx, who) > 0
    /\ \E who \in Addresses : account_of(ctx, who) = None

\* ------------------------------------------------ properties: ClaimOps
\* The height of the instance, read as apply reads it, is above the
\* checkpoint.
AboveCheckpoint == AsI64(staking.cur_height) > evm_staking_inital_height

\* C36: at every height, on either side of the checkpoint, a ClaimOps whose
\* signature does not verify over the bytes of its body under its public
\* key makes apply return an error and leave the Staking instance and EVM
\* staking as they were; check_run returns what apply returns and leaves
\* what apply leaves.
C36_SignatureFirst ==
    \A ops \in ClaimOpsSet :
        /\ check_run(ops, staking, EVM_STAKING) = apply(ops, staking, EVM_STAKING)
        /\ verify(ops) # Ok =>
              /\ apply(ops, staking, EVM_STAKING).result # Ok
              /\ apply(ops, staking, EVM_STAKING).staking = staking
              /\ apply(ops, staking, EVM_STAKING).evm = EVM_STAKING

\* Above the checkpoint, with EVM staking set and claims taken before, an
\* apply was refused for a ClaimOps that carried a validator address and a
\* signature that does not verify.
C36_Witness ==
    /\ applied.method = "apply"
    /\ ~applied.verified
    /\ applied.td_addr # None
    /\ applied.result # Ok
    /\ AboveCheckpoint
    /\ EVM_STAKING # None
    /\ ClaimsTaken >= 1

\* The same ClaimOps with another body, signed again by its key.
Resigned(ops, body) ==
    [ops EXCEPT !.body = body, !.signature = sign(ops.pubkey, Data_to_bytes(body))]

\* What apply does on the EVM path and on the path of the Staking
\* instance, the EVM path being taken when `evm_path` holds.
PathByHeight(evm_path) ==
    \A ops \in ClaimOpsSet :
        LET r == apply(ops, staking, EVM_STAKING)
        IN IF evm_path
           THEN /\ r.staking = staking
                /\ ops.td_addr = None => r.result # Ok /\ r.evm = EVM_STAKING
                /\ r.result = Ok =>
                      r.evm = Some([EVM_STAKING[2] EXCEPT !.claims =
                                       Append(@, <<ops.td_addr[2], ops.pubkey>>)])
                /\ r.result # Ok => r.evm = EVM_STAKING
                /\ verify(ops) = Ok =>
                      \A body \in Bodies :
                          apply(Resigned(ops, body), staking, EVM_STAKING) = r
           ELSE /\ r.evm = EVM_STAKING
                /\ verify(ops) = Ok =>
                      /\ r.result = StakingClaim(staking, ops.pubkey, ops.body.amount).result
                      /\ r.staking = StakingClaim(staking, ops.pubkey, ops.body.amount).staking
                      /\ \A td_addr \in ValidatorAddrs :
                            apply([ops EXCEPT !.td_addr = td_addr], staking, EVM_STAKING) = r

====
